---- MODULE Spec2Model ----
(***************************************************************************)
(* A model of the asynchronous SQL-injection scanner (src/app.py) and of   *)
(* the dashboard that drives it (src/dashboard.py).                        *)
(*                                                                         *)
(* The module holds several state machines over one set of variables; each  *)
(* specification runs one of them and parks the variables of the others:   *)
(*   SpecDash   the dashboard: request threads and the worker event loop   *)
(*   SpecFetch  AsyncSQLiScanner.fetch under the scan's semaphore          *)
(*   SpecCrawl  AsyncSQLiScanner.crawl / _load_robots / extract_links_forms*)
(*   SpecCrawlLive  SpecCrawl with every awaited fetch returning           *)
(*   SpecSite   the crawl of one fixed site                                 *)
(*   SpecTargets AsyncSQLiScanner.discover_targets on a finished crawl     *)
(*   SpecProbe  AsyncSQLiScanner.test_target tasks and the finding store   *)
(*   SpecScore  _score_for as a function of technique and evidence         *)
(*   SpecRun    one _run coroutine from its first step to the end of its    *)
(*              export, and the request threads of /api/results            *)
(*   SpecRunLive  SpecRun with a fairly scheduled worker loop              *)
(*   SpecDiffer differ as a function of two response texts                 *)
(*   SpecMutate mutate_payload as a function of the payload                *)
(***************************************************************************)
EXTENDS Integers, Sequences, FiniteSets, TLC

VARIABLES
    \* ---- dashboard (src/dashboard.py) ----
    scan_in_progress,   \* the module-level flag
    rpc,                \* request thread -> position in its handler
    rkind,              \* request thread -> which handler it runs
    resp,               \* request thread -> what the handler returned
    issuedDuring,       \* request thread -> was a started scan unfinished when it was issued
    loop_callbacks,     \* worker loop: FIFO of _create_task callbacks (call_soon_threadsafe)
    phase               \* scan (named by its request) -> lifecycle position of its _run coroutine

dashVars == <<scan_in_progress, rpc, rkind, resp, issuedDuring, loop_callbacks, phase>>

VARIABLES
    \* ---- AsyncSQLiScanner.fetch (src/app.py) ----
    concurrency,        \* size of self.semaphore
    max_retries,        \* self.max_retries
    sem,                \* free slots of self.semaphore
    fstage,             \* run(): "crawl" while crawl() runs, then "probe"
    fpc,                \* task -> position in fetch
    attempt,            \* task -> the local attempt of its fetch call
    requests,           \* task -> requests issued by its current fetch call
    nfail,              \* task -> attempts of the current call that ended in the except clause
    flast,              \* task -> what the server did to the last attempt
    fres                \* task -> the (status, text) the call returned

fetchVars == <<concurrency, max_retries, sem, fstage, fpc, attempt, requests, nfail, flast, fres>>

VARIABLES
    \* ---- AsyncSQLiScanner.crawl (src/app.py) ----
    start_url,          \* the seed
    max_depth,          \* self.max_depth
    respect_robots,     \* self.respect_robots
    robots,             \* self._robots
    robotsOutcome,      \* how _load_robots ended
    cpc,                \* position of crawl()
    visited,            \* self.visited
    to_visit,           \* self.to_visit
    form_targets,       \* self.form_targets
    cur,                \* the (url, depth) popped by the running iteration
    fetchLog,           \* the (url, depth) of every crawler fetch, in order
    served,             \* the text each crawler fetch returned, in the same order; kept
                        \* by the crawl of a fixed site, empty in the other crawls
    disallowedLog       \* the URLs logged as "[robots] Disallowed"

crawlVars == <<start_url, max_depth, respect_robots, robots, robotsOutcome, cpc, visited,
               to_visit, form_targets, cur, fetchLog, served, disallowedLog>>

VARIABLES
    \* ---- AsyncSQLiScanner.test_target and the finding store (src/app.py) ----
    targets,            \* the targets run() makes one test_target task for
    site,               \* what the site lets a fetch of a probing task return
    answers,            \* the requests (by their params) the site answers in one fixed
                        \* way, each with what a fetch of it returns; any other
                        \* request gets one of the other returns of site
    noise_grouping,     \* self.noise_grouping
    time_based,         \* self.time_based
    boolean_rounds,     \* self.boolean_rounds
    union_max_columns,  \* self.union_max_columns
    param_fuzz,         \* self.param_fuzz
    tt,                 \* task -> the locals of its test_target and the fetch it awaits
    results,            \* self.results
    _seen_findings,     \* self._seen_findings
    cause,              \* for each entry of results: the task that recorded it, and
                        \* what the fetch behind it returned
    dropped             \* the calls of record that found their key: (task, technique, param)

\* the probing state but for the targets, which discover_targets makes
storeVars == <<site, answers, noise_grouping, time_based, boolean_rounds, union_max_columns,
               param_fuzz, tt, results, _seen_findings, cause, dropped>>

probeVars == <<targets, storeVars>>

VARIABLES
    \* ---- _score_for as a function of its arguments (src/app.py) ----
    score_args,         \* the (tech, evidence) of a call
    score_ret           \* what the call returned, in hundredths (-1 before it returns)

scoreVars == <<score_args, score_ret>>

VARIABLES
    \* ---- run_scan._run, export_results, api_results (both files) ----
    run_pc,             \* position of the _run coroutine
    pages,              \* pages the crawl loop has fetched
    task_pc,            \* test_target task -> position
    scanner_results,    \* scanner.results of the scan
    json_file,          \* scan_<ts>.json: "none", "written" or "partial"
    csv_file,           \* scan_<ts>.csv: "none", "written" or "partial"
    pdf_file,           \* scan_<ts>.pdf: "none", "written" or "skipped"
    latest_file,        \* latest_scan.json: does it exist, and its text
    reader              \* /api/results request thread -> its position, what
                        \* load_latest has read, and what the handler returned

runVars == <<run_pc, pages, task_pc, scanner_results, json_file, csv_file, pdf_file,
             latest_file, reader>>

VARIABLES
    \* ---- differ and mutate_payload as functions of their arguments ----
    call_args,          \* the arguments of a call
    call_ret            \* has the call returned, and what

callVars == <<call_args, call_ret>>

vars == <<dashVars, fetchVars, crawlVars, probeVars, scoreVars, runVars, callVars>>

\* what an action of one machine leaves alone: the variables of the others
DashFrame == UNCHANGED <<fetchVars, crawlVars, probeVars, scoreVars, runVars, callVars>>
FetchFrame == UNCHANGED <<dashVars, crawlVars, probeVars, scoreVars, runVars, callVars>>
CrawlFrame == UNCHANGED <<dashVars, fetchVars, probeVars, scoreVars, runVars, callVars>>
ProbeFrame == UNCHANGED <<dashVars, fetchVars, crawlVars, scoreVars, runVars, callVars>>
ScoreFrame == UNCHANGED <<dashVars, fetchVars, crawlVars, probeVars, runVars, callVars>>
RunFrame == UNCHANGED <<rpc, rkind, resp, issuedDuring, loop_callbacks, phase,
                        fetchVars, crawlVars, probeVars, scoreVars, callVars>>
CallFrame == UNCHANGED <<dashVars, fetchVars, crawlVars, probeVars, scoreVars, runVars>>

(***************************************************************************)
(* Bounds                                                                  *)
(***************************************************************************)
MaxRequests == 3
MaxConcurrency == 2
MaxRetries == 2
NumProbers == 2
MaxDepth == 2
NumErrorProbes == 2
MaxSeeds == 2
MaxRounds == 4
MaxColumns == 2
MaxForms == 2
MaxEvidence == 30
MaxProx == 250
MaxPages == 1
NumReaders == 1
NumOld == 1
MaxUnits == 4
MaxLen == 3

(***************************************************************************)
(* Dashboard                                                               *)
(***************************************************************************)
Requests == 1..MaxRequests

Handlers == {"api_scan", "scan", "api_status"}

\* a scan that has been scheduled and whose _run has not reached the end of its finally
ActivePhases == {"queued", "created", "crawling", "probing", "exporting"}

\* a scan whose scanner is executing
ExecutingPhases == {"crawling", "probing", "exporting"}

DashInit ==
    /\ scan_in_progress = FALSE
    /\ rpc = [r \in Requests |-> "new"]
    /\ rkind = [r \in Requests |-> "none"]
    /\ resp = [r \in Requests |-> "none"]
    /\ issuedDuring = [r \in Requests |-> FALSE]
    /\ loop_callbacks = <<>>
    /\ phase = [r \in Requests |-> "none"]

\* is a scan that answered 'started' (or was scheduled by the form handler) still unfinished
StartedUnfinished ==
    \E s \in Requests : rpc[s] = "done" /\ phase[s] \in ActivePhases

\* api_scan / scan: the handler reads the flag; busy when it is set
StartScanCheck(r, k) ==
    /\ rpc[r] = "new"
    /\ k \in {"api_scan", "scan"}
    /\ rkind' = [rkind EXCEPT ![r] = k]
    /\ issuedDuring' = [issuedDuring EXCEPT ![r] = StartedUnfinished]
    /\ IF scan_in_progress
         THEN /\ rpc' = [rpc EXCEPT ![r] = "done"]
              /\ resp' = [resp EXCEPT ![r] = IF k = "api_scan" THEN "busy" ELSE "redirect"]
         ELSE /\ rpc' = [rpc EXCEPT ![r] = "passed"]
              /\ UNCHANGED resp
    /\ UNCHANGED <<scan_in_progress, loop_callbacks, phase>>
    /\ DashFrame

\* run_scan: hand _create_task to the worker loop, then answer
run_scan(r) ==
    /\ rpc[r] = "passed"
    /\ loop_callbacks' = Append(loop_callbacks, r)
    /\ phase' = [phase EXCEPT ![r] = "queued"]
    /\ rpc' = [rpc EXCEPT ![r] = "done"]
    /\ resp' = [resp EXCEPT ![r] = IF rkind[r] = "api_scan" THEN "started" ELSE "redirect"]
    /\ UNCHANGED <<scan_in_progress, rkind, issuedDuring>>
    /\ DashFrame

\* api_status: report the flag
api_status(r) ==
    /\ rpc[r] = "new"
    /\ rkind' = [rkind EXCEPT ![r] = "api_status"]
    /\ rpc' = [rpc EXCEPT ![r] = "done"]
    /\ resp' = [resp EXCEPT ![r] = IF scan_in_progress THEN "running" ELSE "idle"]
    /\ UNCHANGED <<scan_in_progress, issuedDuring, loop_callbacks, phase>>
    /\ DashFrame

\* worker loop: run the oldest callback, _create_task, which makes the task of _run
CreateTask ==
    /\ loop_callbacks # <<>>
    /\ phase' = [phase EXCEPT ![Head(loop_callbacks)] = "created"]
    /\ loop_callbacks' = Tail(loop_callbacks)
    /\ UNCHANGED <<scan_in_progress, rpc, rkind, resp, issuedDuring>>
    /\ DashFrame

\* worker loop: first step of _run: set the flag, build the scanner, enter scanner.run()
RunStart(s) ==
    /\ phase[s] = "created"
    /\ scan_in_progress' = TRUE
    /\ phase' = [phase EXCEPT ![s] = "crawling"]
    /\ UNCHANGED <<rpc, rkind, resp, issuedDuring, loop_callbacks>>
    /\ DashFrame

\* scanner.run(): the crawl has ended, the probing tasks are gathered
CrawlEnds(s) ==
    /\ phase[s] = "crawling"
    /\ phase' = [phase EXCEPT ![s] = "probing"]
    /\ UNCHANGED <<scan_in_progress, rpc, rkind, resp, issuedDuring, loop_callbacks>>
    /\ DashFrame

\* scanner.run() returns; export_results() starts
ProbingEnds(s) ==
    /\ phase[s] = "probing"
    /\ phase' = [phase EXCEPT ![s] = "exporting"]
    /\ UNCHANGED <<scan_in_progress, rpc, rkind, resp, issuedDuring, loop_callbacks>>
    /\ DashFrame

\* the finally clause of _run, reached by return or by an exception
RunFinally(s) ==
    /\ phase[s] \in ExecutingPhases
    /\ scan_in_progress' = FALSE
    /\ phase' = [phase EXCEPT ![s] = "done"]
    /\ UNCHANGED <<rpc, rkind, resp, issuedDuring, loop_callbacks>>
    /\ DashFrame

DashParked ==
    /\ scan_in_progress = FALSE
    /\ rpc = <<>>
    /\ rkind = <<>>
    /\ resp = <<>>
    /\ issuedDuring = <<>>
    /\ loop_callbacks = <<>>
    /\ phase = <<>>

DashNext ==
    \/ \E r \in Requests, k \in {"api_scan", "scan"} : StartScanCheck(r, k)
    \/ \E r \in Requests : run_scan(r)
    \/ \E r \in Requests : api_status(r)
    \/ CreateTask
    \/ \E s \in Requests : RunStart(s)
    \/ \E s \in Requests : CrawlEnds(s)
    \/ \E s \in Requests : ProbingEnds(s)
    \/ \E s \in Requests : RunFinally(s)

(***************************************************************************)
(* fetch: one HTTP call with retries, under the scan's semaphore           *)
(***************************************************************************)
\* task 0 is the crawl (robots fetch, then the page fetches); the others are
\* the test_target tasks that run() gathers once crawl() has returned
Crawler == 0
Probers == 1..NumProbers
FTasks == {Crawler} \cup Probers

None == 0

\* what the server (or the network) does to one attempt
Exc == [kind |-> "exc", status |-> None, body |-> ""]
Response(st, b) == [kind |-> "resp", status |-> st, body |-> b]
Outcomes ==
    {Exc, Response(429, "E"), Response(500, "E"), Response(404, "N"),
     Response(200, "B1"), Response(200, "B2")}

\* no attempt of the current call has ended yet
NoOutcome == [kind |-> "none", status |-> None, body |-> "-"]

\* (mutant) only 5xx is retried
Retryable_5xxOnly(status) == 500 <= status /\ status < 600

\* retry on 429 or 5xx
Retryable(status) == status = 429 \/ (500 <= status /\ status < 600)

\* does this attempt end in the except clause
Raises(o) == o.kind = "exc" \/ Retryable(o.status)

\* (mutant) one retry too many
GiveUp_OffByOne(att) == att > max_retries

\* the except clause: give up when attempt >= max_retries
GiveUp(att) == att >= max_retries

\* what fetch does when attempt att got outcome o: return, or sleep and retry
fetch_step(o, att) ==
    IF ~Raises(o)
      THEN [pc |-> "returned", res |-> [status |-> o.status, body |-> o.body]]
      ELSE IF GiveUp(att)
             THEN [pc |-> "returned", res |-> [status |-> None, body |-> ""]]
             ELSE [pc |-> "backoff", res |-> [status |-> None, body |-> ""]]

NoResult == [status |-> None, body |-> "-"]

FetchInit ==
    /\ concurrency \in 1..MaxConcurrency
    /\ max_retries \in 0..MaxRetries
    /\ sem = concurrency
    /\ fstage = "crawl"
    /\ fpc = [t \in FTasks |-> "idle"]
    /\ attempt = [t \in FTasks |-> 0]
    /\ requests = [t \in FTasks |-> 0]
    /\ nfail = [t \in FTasks |-> 0]
    /\ flast = [t \in FTasks |-> NoOutcome]
    /\ fres = [t \in FTasks |-> NoResult]

FetchParked ==
    /\ concurrency = 0
    /\ max_retries = 0
    /\ sem = 0
    /\ fstage = "off"
    /\ fpc = <<>>
    /\ attempt = <<>>
    /\ requests = <<>>
    /\ nfail = <<>>
    /\ flast = <<>>
    /\ fres = <<>>

\* may task t run now: crawl() is awaited before the probing tasks are made
Scheduled(t) == IF t = Crawler THEN fstage = "crawl" ELSE fstage = "probe"

\* a task calls fetch: attempt = 0, enter the loop
FetchCall(t) ==
    /\ Scheduled(t)
    /\ fpc[t] \in {"idle", "returned"}
    /\ fpc' = [fpc EXCEPT ![t] = "acquire"]
    /\ attempt' = [attempt EXCEPT ![t] = 0]
    /\ requests' = [requests EXCEPT ![t] = 0]
    /\ nfail' = [nfail EXCEPT ![t] = 0]
    /\ fres' = [fres EXCEPT ![t] = NoResult]
    /\ flast' = [flast EXCEPT ![t] = NoOutcome]
    /\ UNCHANGED <<concurrency, max_retries, sem, fstage>>
    /\ FetchFrame

\* (mutant) the request is issued without waiting for a free slot
Acquire_NoWait(t) ==
    /\ fpc[t] = "acquire"
    /\ sem' = sem - 1
    /\ fpc' = [fpc EXCEPT ![t] = "inflight"]
    /\ requests' = [requests EXCEPT ![t] = @ + 1]
    /\ UNCHANGED <<concurrency, max_retries, fstage, attempt, nfail, flast, fres>>
    /\ FetchFrame

\* async with self.semaphore: take a slot and issue the request
Acquire(t) ==
    /\ fpc[t] = "acquire"
    /\ sem > 0
    /\ sem' = sem - 1
    /\ fpc' = [fpc EXCEPT ![t] = "inflight"]
    /\ requests' = [requests EXCEPT ![t] = @ + 1]
    /\ UNCHANGED <<concurrency, max_retries, fstage, attempt, nfail, flast, fres>>
    /\ FetchFrame

\* Respond with the backoff sleep inside the async with: the slot is kept
\* while the fetch sleeps
Respond_SleepsInside(t, o) ==
    /\ fpc[t] = "inflight"
    /\ sem' = IF fetch_step(o, attempt[t]).pc = "backoff" THEN sem ELSE sem + 1
    /\ flast' = [flast EXCEPT ![t] = o]
    /\ nfail' = [nfail EXCEPT ![t] = IF Raises(o) THEN @ + 1 ELSE @]
    /\ fpc' = [fpc EXCEPT ![t] = fetch_step(o, attempt[t]).pc]
    /\ fres' = [fres EXCEPT ![t] =
                  IF fetch_step(o, attempt[t]).pc = "returned"
                    THEN fetch_step(o, attempt[t]).res ELSE @]
    /\ UNCHANGED <<concurrency, max_retries, fstage, attempt, requests>>
    /\ FetchFrame

\* the attempt ends (response read, or exception): the slot is released on the
\* way out of the async with, then fetch returns or goes to sleep
Respond(t, o) ==
    /\ fpc[t] = "inflight"
    /\ sem' = sem + 1
    /\ flast' = [flast EXCEPT ![t] = o]
    /\ nfail' = [nfail EXCEPT ![t] = IF Raises(o) THEN @ + 1 ELSE @]
    /\ fpc' = [fpc EXCEPT ![t] = fetch_step(o, attempt[t]).pc]
    /\ fres' = [fres EXCEPT ![t] =
                  IF fetch_step(o, attempt[t]).pc = "returned"
                    THEN fetch_step(o, attempt[t]).res ELSE @]
    /\ UNCHANGED <<concurrency, max_retries, fstage, attempt, requests>>
    /\ FetchFrame

\* the backoff sleep is over: attempt += 1 and loop
BackoffDone(t) ==
    /\ fpc[t] = "backoff"
    /\ attempt' = [attempt EXCEPT ![t] = @ + 1]
    /\ fpc' = [fpc EXCEPT ![t] = "acquire"]
    /\ UNCHANGED <<concurrency, max_retries, sem, fstage, requests, nfail, flast, fres>>
    /\ FetchFrame

\* crawl() returns after the last of its fetches (its locals are gone); run()
\* makes the probing tasks
CrawlReturns ==
    /\ fstage = "crawl"
    /\ fpc[Crawler] = "returned"
    /\ fstage' = "probe"
    /\ fpc' = [fpc EXCEPT ![Crawler] = "idle"]
    /\ attempt' = [attempt EXCEPT ![Crawler] = 0]
    /\ requests' = [requests EXCEPT ![Crawler] = 0]
    /\ nfail' = [nfail EXCEPT ![Crawler] = 0]
    /\ flast' = [flast EXCEPT ![Crawler] = NoOutcome]
    /\ fres' = [fres EXCEPT ![Crawler] = NoResult]
    /\ UNCHANGED <<concurrency, max_retries, sem>>
    /\ FetchFrame

FetchNext ==
    \/ \E t \in FTasks : FetchCall(t)
    \/ \E t \in FTasks : Acquire(t)
    \/ \E t \in FTasks, o \in Outcomes : Respond(t, o)
    \/ \E t \in FTasks : BackoffDone(t)
    \/ CrawlReturns

(***************************************************************************)
(* crawl: robots policy, BFS over the site, link and form extraction       *)
(***************************************************************************)
\* A URL is its parsed form; a path is the sequence of its segments and a query
\* the sequence of its (key, value) pairs. Identity is the whole record.
Url(h, p, q, f) == [host |-> h, path |-> p, query |-> q, frag |-> f]

\* an href or action attribute: host "" is a relative reference
Href(k, h, p, q, f) == [kind |-> k, host |-> h, path |-> p, query |-> q, frag |-> f]

NoQuery == <<>>
QX1 == << <<"x", "1">> >>
QId1 == << <<"id", "1">> >>

StartUrls == {Url("h", <<>>, QId1, "")}

hA == Href("http", "", <<"a">>, QX1, "")
hB == Href("http", "", <<"b">>, NoQuery, "top")
hSeed == Href("http", "h", <<>>, QId1, "")
hAdmin == Href("http", "h", <<"admin", "x">>, NoQuery, "")
hEvil == Href("http", "evil", <<"p">>, NoQuery, "")
hJs == Href("javascript", "", <<>>, NoQuery, "")
hMail == Href("mailto", "", <<>>, NoQuery, "")
NoAction == Href("none", "", <<>>, NoQuery, "")

\* a <form>: its action (NoAction when the attribute is missing or empty), its
\* method attribute ("" when missing) and its fields as (name, value) pairs
\* ("" for a missing name or value)
Form(a, m, i) == [action |-> a, method |-> m, inputs |-> i]

fSelf == Form(NoAction, "", << <<"id", "1">>, <<"", "go">> >>)
fLogin == Form(Href("http", "", <<"login">>, NoQuery, ""), "post", << <<"user", "">>, <<"user", "bob">> >>)
fEvil == Form(Href("http", "evil", <<"post">>, NoQuery, ""), "Post", << <<"q", "1">> >>)
fAdmin == Form(Href("http", "h", <<"admin", "f">>, NoQuery, ""), "put", << <<"k", "v">> >>)
fQuery == Form(Href("http", "", <<"s">>, QX1, "frag"), "get", << <<"x", "2">> >>)

\* the text of a response: empty, or HTML with its <a href> and <form> elements in order
Text(l, f) == [empty |-> FALSE, links |-> l, forms |-> f]
EmptyText == [empty |-> TRUE, links |-> <<>>, forms |-> <<>>]

Pages ==
    {Text(<<hA, hB>>, <<>>),
     Text(<<hEvil, hAdmin, hJs>>, <<fEvil, fAdmin>>),
     Text(<<hSeed, hMail>>, <<fSelf, fLogin>>),
     Text(<<>>, <<fQuery>>)}

\* a robots.txt, as the path prefixes it disallows for the session user agent
RobotsTxts == { {}, {<<"admin">>}, {<<>>} }

NoRobots == [loaded |-> FALSE, rules |-> {}]

\* self.domain = urlparse(start_url).netloc
domain == start_url.host

IsPrefix(a, b) == Len(a) <= Len(b) /\ SubSeq(b, 1, Len(a)) = a

\* (mutant) a missing policy denies everything
_can_fetch_DenyMissing(url) ==
    IF ~robots.loaded THEN FALSE
    ELSE ~\E pre \in robots.rules : IsPrefix(pre, url.path)

\* _can_fetch: allow when no policy is loaded, else ask the parser
_can_fetch(url) ==
    IF ~robots.loaded THEN TRUE
    ELSE ~\E pre \in robots.rules : IsPrefix(pre, url.path)

\* (mutant) the robots policy is never asked
RobotsAllow_Ignored(url) == TRUE

\* (not self.respect_robots) or self._can_fetch(url)
RobotsAllow(url) == ~respect_robots \/ _can_fetch(url)

\* (mutant) the depth test is off by one
TooDeep_OffByOne(depth) == depth > max_depth + 1

\* depth > self.max_depth
TooDeep(depth) == depth > max_depth

\* urljoin(base_url, href)
urljoin(base, h) ==
    IF h.kind = "none" THEN base
    ELSE IF h.host = "" THEN Url(base.host, h.path, h.query, h.frag)
    ELSE Url(h.host, h.path, h.query, h.frag)

\* parsed._replace(fragment='').geturl()
StripFragment(u) == [u EXCEPT !.frag = ""]

Item(u, d) == [url |-> u, depth |-> d]

\* the <a href> pass: is this link enqueued
LinkKept(h, base) ==
    /\ h.kind \notin {"javascript", "mailto"}
    /\ urljoin(base, h).host = domain
    /\ StripFragment(urljoin(base, h)) \notin visited
    /\ RobotsAllow(StripFragment(urljoin(base, h)))

NewLinks(text, base, depth) ==
    LET kept == SelectSeq(text.links, LAMBDA h : LinkKept(h, base))
    IN [i \in 1..Len(kept) |-> Item(StripFragment(urljoin(base, kept[i])), depth + 1)]

\* (form.get('method') or "get").upper()
Upper(m) ==
    CASE m \in {"", "get", "Get", "GET"} -> "GET"
      [] m \in {"post", "Post", "POST"} -> "POST"
      [] m \in {"put", "PUT"} -> "PUT"
      [] OTHER -> m

\* the dict built from the named fields: a later field of the same name
\* replaces the value, an empty value becomes 'test'
RECURSIVE Inputs(_)
Inputs(fields) ==
    IF fields = <<>> THEN <<>>
    ELSE LET rest == Inputs(SubSeq(fields, 1, Len(fields) - 1))
             name == fields[Len(fields)][1]
             raw == fields[Len(fields)][2]
             value == IF raw = "" THEN "test" ELSE raw
         IN IF name = "" THEN rest
            ELSE IF \E i \in 1..Len(rest) : rest[i][1] = name
                   THEN [i \in 1..Len(rest) |->
                            IF rest[i][1] = name THEN <<name, value>> ELSE rest[i]]
                   ELSE Append(rest, <<name, value>>)

FormTarget(form, base) ==
    [type |-> Upper(form.method), url |-> urljoin(base, form.action), params |-> Inputs(form.inputs)]

\* the <form> pass: the forms stored as targets
NewFormTargets(text, base) ==
    LET kept == SelectSeq(text.forms, LAMBDA f : RobotsAllow(urljoin(base, f.action)))
    IN [i \in 1..Len(kept) |-> FormTarget(kept[i], base)]

\* the <form> pass: the actions enqueued
FormKept(f, base) ==
    /\ urljoin(base, f.action) \notin visited
    /\ RobotsAllow(urljoin(base, f.action))

\* the <form> pass without the append to to_visit
NewFormItems_None(text, base, depth) == <<>>

NewFormItems(text, base, depth) ==
    LET kept == SelectSeq(text.forms, LAMBDA f : FormKept(f, base))
    IN [i \in 1..Len(kept) |-> Item(urljoin(base, kept[i].action), depth + 1)]

CrawlInit ==
    /\ start_url \in StartUrls
    /\ max_depth \in 0..MaxDepth
    /\ respect_robots \in BOOLEAN
    /\ robots = NoRobots
    /\ robotsOutcome = "not loaded"
    /\ cpc = "start"
    /\ visited = {}
    /\ to_visit = <<Item(start_url, 0)>>
    /\ form_targets = <<>>
    /\ cur = Item(start_url, 0)
    /\ fetchLog = <<>>
    /\ served = <<>>
    /\ disallowedLog = {}

CrawlParked ==
    /\ start_url = Url("", <<>>, <<>>, "")
    /\ max_depth = 0
    /\ respect_robots = FALSE
    /\ robots = NoRobots
    /\ robotsOutcome = "off"
    /\ cpc = "off"
    /\ visited = {}
    /\ to_visit = <<>>
    /\ form_targets = <<>>
    /\ cur = <<>>
    /\ fetchLog = <<>>
    /\ served = <<>>
    /\ disallowedLog = {}

\* how the fetch and parse of robots.txt can end
RobotsLoads ==
    {[kind |-> k, rules |-> {}] : k \in {"fetch failed", "empty body", "parse error"}}
        \cup {[kind |-> "loaded", rules |-> r] : r \in RobotsTxts}

\* _load_robots: the policy is kept only when a non-empty text was parsed
LoadedRobots(o) ==
    IF o.kind \in {"fetch failed", "empty body", "parse error"}
      THEN NoRobots
      ELSE [loaded |-> TRUE, rules |-> o.rules]

\* crawl() with respect_robots: _load_robots, once, before the loop
_load_robots(o) ==
    /\ cpc = "start"
    /\ respect_robots
    /\ robots' = LoadedRobots(o)
    /\ robotsOutcome' = o.kind
    /\ cpc' = "loop"
    /\ UNCHANGED <<start_url, max_depth, respect_robots, visited, to_visit, form_targets,
                   cur, fetchLog, served, disallowedLog>>
    /\ CrawlFrame

\* crawl() without respect_robots goes straight to the loop
CrawlNoRobots ==
    /\ cpc = "start"
    /\ ~respect_robots
    /\ cpc' = "loop"
    /\ UNCHANGED <<start_url, max_depth, respect_robots, robots, robotsOutcome, visited,
                   to_visit, form_targets, cur, fetchLog, served, disallowedLog>>
    /\ CrawlFrame

\* CrawlSkip that reads the head of the queue without removing it
CrawlSkip_NoPop ==
    /\ cpc = "loop"
    /\ to_visit # <<>>
    /\ Head(to_visit).url \in visited \/ TooDeep(Head(to_visit).depth)
    /\ UNCHANGED <<start_url, max_depth, respect_robots, robots, robotsOutcome, cpc, visited,
                   to_visit, form_targets, cur, fetchLog, served, disallowedLog>>
    /\ CrawlFrame

\* pop(0), then 'continue': already visited or too deep
CrawlSkip ==
    /\ cpc = "loop"
    /\ to_visit # <<>>
    /\ Head(to_visit).url \in visited \/ TooDeep(Head(to_visit).depth)
    /\ to_visit' = Tail(to_visit)
    /\ UNCHANGED <<start_url, max_depth, respect_robots, robots, robotsOutcome, cpc, visited,
                   form_targets, cur, fetchLog, served, disallowedLog>>
    /\ CrawlFrame

\* pop(0), then 'continue': robots disallows the URL
CrawlDisallowed ==
    /\ cpc = "loop"
    /\ to_visit # <<>>
    /\ ~(Head(to_visit).url \in visited \/ TooDeep(Head(to_visit).depth))
    /\ respect_robots /\ ~_can_fetch(Head(to_visit).url)
    /\ to_visit' = Tail(to_visit)
    /\ disallowedLog' = disallowedLog \cup {Head(to_visit).url}
    /\ UNCHANGED <<start_url, max_depth, respect_robots, robots, robotsOutcome, cpc, visited,
                   form_targets, cur, fetchLog, served>>
    /\ CrawlFrame

\* CrawlVisit without visited.add(url)
CrawlVisit_NoAdd ==
    /\ cpc = "loop"
    /\ to_visit # <<>>
    /\ ~(Head(to_visit).url \in visited \/ TooDeep(Head(to_visit).depth))
    /\ ~(respect_robots /\ ~_can_fetch(Head(to_visit).url))
    /\ to_visit' = Tail(to_visit)
    /\ cur' = Head(to_visit)
    /\ fetchLog' = Append(fetchLog, Head(to_visit))
    /\ cpc' = "fetching"
    /\ UNCHANGED <<start_url, max_depth, respect_robots, robots, robotsOutcome, visited,
                   form_targets, served, disallowedLog>>
    /\ CrawlFrame

\* pop(0), visited.add(url), and the fetch of the page is issued
CrawlVisit ==
    /\ cpc = "loop"
    /\ to_visit # <<>>
    /\ ~(Head(to_visit).url \in visited \/ TooDeep(Head(to_visit).depth))
    /\ ~(respect_robots /\ ~_can_fetch(Head(to_visit).url))
    /\ to_visit' = Tail(to_visit)
    /\ cur' = Head(to_visit)
    /\ visited' = visited \cup {Head(to_visit).url}
    /\ fetchLog' = Append(fetchLog, Head(to_visit))
    /\ cpc' = "fetching"
    /\ UNCHANGED <<start_url, max_depth, respect_robots, robots, robotsOutcome, form_targets,
                   served, disallowedLog>>
    /\ CrawlFrame

\* the texts a crawler fetch can return: "" (failure or empty body) or a page
CrawlTexts == {EmptyText} \cup Pages

\* CrawlFetched with the new entries put at the front of the queue
CrawlFetched_Prepend(text) ==
    /\ cpc = "fetching"
    /\ cpc' = "loop"
    /\ IF text.empty
         THEN UNCHANGED <<to_visit, form_targets>>
         ELSE /\ to_visit' = NewLinks(text, cur.url, cur.depth)
                                \o NewFormItems(text, cur.url, cur.depth) \o to_visit
              /\ form_targets' = form_targets \o NewFormTargets(text, cur.url)
    /\ UNCHANGED <<start_url, max_depth, respect_robots, robots, robotsOutcome, visited, cur,
                   fetchLog, served, disallowedLog>>
    /\ CrawlFrame

\* fetch returned (and the politeness sleep is over): extract_links_forms on a
\* non-empty text, links first, then forms
CrawlFetched(text) ==
    /\ cpc = "fetching"
    /\ cpc' = "loop"
    /\ IF text.empty
         THEN UNCHANGED <<to_visit, form_targets>>
         ELSE /\ to_visit' = to_visit \o NewLinks(text, cur.url, cur.depth)
                                      \o NewFormItems(text, cur.url, cur.depth)
              /\ form_targets' = form_targets \o NewFormTargets(text, cur.url)
    /\ UNCHANGED <<start_url, max_depth, respect_robots, robots, robotsOutcome, visited, cur,
                   fetchLog, served, disallowedLog>>
    /\ CrawlFrame

\* the queue is empty: crawl() returns
CrawlDone ==
    /\ cpc = "loop"
    /\ to_visit = <<>>
    /\ cpc' = "done"
    /\ UNCHANGED <<start_url, max_depth, respect_robots, robots, robotsOutcome, visited,
                   to_visit, form_targets, cur, fetchLog, served, disallowedLog>>
    /\ CrawlFrame

CrawlNext ==
    \/ \E o \in RobotsLoads : _load_robots(o)
    \/ CrawlNoRobots
    \/ CrawlSkip
    \/ CrawlDisallowed
    \/ CrawlVisit
    \/ \E text \in CrawlTexts : CrawlFetched(text)
    \/ CrawlDone

(***************************************************************************)
(* the crawl of one fixed site: each URL has one page, which a fetch of    *)
(* the URL returns unless the fetch fails                                  *)
(***************************************************************************)
uA == Url("h", <<"a">>, QX1, "")
uB == Url("h", <<"b">>, NoQuery, "")
uLogin == Url("h", <<"login">>, NoQuery, "")
uSearch == Url("h", <<"s">>, QX1, "frag")
uAdmin == Url("h", <<"admin", "x">>, NoQuery, "")
uEvilPost == Url("evil", <<"post">>, NoQuery, "")
hC == Href("http", "", <<"c">>, NoQuery, "")

Site(u) ==
    CASE u \in StartUrls -> Text(<<hA, hB>>, <<fEvil>>)
      [] u = uA -> Text(<<hSeed, hMail>>, <<fSelf, fLogin>>)
      [] u = uB -> Text(<<hAdmin, hJs, hEvil>>, <<fQuery>>)
      [] u = uEvilPost -> Text(<<hSeed, hAdmin>>, <<>>)
      [] u = uLogin -> Text(<<hC, hB>>, <<>>)
      [] u = uSearch -> Text(<<hA>>, <<fLogin>>)
      [] u = uAdmin -> Text(<<hC>>, <<fAdmin>>)
      [] OTHER -> Text(<<>>, <<>>)

\* what a fetch of the URL can return: "" (failure) or the page of the URL
SiteTexts(u) == {EmptyText, Site(u)}

\* the texts of the site
AllSiteTexts ==
    {EmptyText, Text(<<>>, <<>>)}
        \cup {Site(u) : u \in StartUrls \cup {uA, uB, uEvilPost, uLogin, uSearch, uAdmin}}

\* CrawlFetched on the fixed site, with the returned text logged
SiteFetched(text) ==
    /\ cpc = "fetching"
    /\ text \in SiteTexts(cur.url)
    /\ cpc' = "loop"
    /\ served' = Append(served, text)
    /\ IF text.empty
         THEN UNCHANGED <<to_visit, form_targets>>
         ELSE /\ to_visit' = to_visit \o NewLinks(text, cur.url, cur.depth)
                                      \o NewFormItems(text, cur.url, cur.depth)
              /\ form_targets' = form_targets \o NewFormTargets(text, cur.url)
    /\ UNCHANGED <<start_url, max_depth, respect_robots, robots, robotsOutcome, visited, cur,
                   fetchLog, disallowedLog>>
    /\ CrawlFrame

SiteNext ==
    \/ \E o \in RobotsLoads : _load_robots(o)
    \/ CrawlNoRobots
    \/ CrawlSkip
    \/ CrawlDisallowed
    \/ CrawlVisit
    \/ \E text \in AllSiteTexts : SiteFetched(text)
    \/ CrawlDone

(***************************************************************************)
(* discover_targets, run by run() on what crawl() left in self.visited and *)
(* self.form_targets.                                                      *)
(***************************************************************************)
\* parse_qs(qs) with the first value of each key: a pair with a blank value
\* is dropped, keys stay in the order of their first appearance
RECURSIVE ParseQs(_)
ParseQs(q) ==
    IF q = <<>> THEN <<>>
    ELSE LET rest == ParseQs(SubSeq(q, 1, Len(q) - 1))
             pair == q[Len(q)]
         IN IF pair[2] = "" \/ \E i \in 1..Len(rest) : rest[i][1] = pair[1] THEN rest
            ELSE Append(rest, pair)

\* the target of a visited URL with a query string
GetTarget(url) ==
    [type |-> "GET", url |-> [url EXCEPT !.query = NoQuery], params |-> ParseQs(url.query)]

\* (t['type'], t['url'], tuple(sorted(t['params'].items())))
TargetKey(t) == <<t.type, t.url, {t.params[i] : i \in 1..Len(t.params)}>>

\* (mutant) every candidate is kept
DedupTargets_KeepAll(ts) == ts

\* the loop over targets + self.form_targets: keep the first of each key
RECURSIVE DedupTargets(_)
DedupTargets(ts) ==
    IF ts = <<>> THEN <<>>
    ELSE LET out == DedupTargets(SubSeq(ts, 1, Len(ts) - 1))
             t == ts[Len(ts)]
         IN IF \E i \in 1..Len(out) : TargetKey(out[i]) = TargetKey(t) THEN out
            ELSE Append(out, t)

\* (mutant) every visited URL gives a GET target
Queried_All == visited

\* the visited URLs that pass "if qs:"
Queried == {url \in visited : url.query # <<>>}

\* the orders in which a set can be iterated
RECURSIVE Orderings(_)
Orderings(S) ==
    IF S = {} THEN {<<>>}
    ELSE UNION {{<<x>> \o r : r \in Orderings(S \ {x})} : x \in S}

\* targets + self.form_targets, when the iteration of self.visited meets the
\* URLs with a query string in order ord
Candidates(ord) == [i \in 1..Len(ord) |-> GetTarget(ord[i])] \o form_targets

\* discover_targets, run by run() once crawl() has returned; the iteration
\* order of the set self.visited is not fixed
discover_targets(ord) ==
    /\ cpc = "done"
    /\ cpc' = "discovered"
    /\ targets' = DedupTargets(Candidates(ord))
    /\ UNCHANGED <<start_url, max_depth, respect_robots, robots, robotsOutcome, visited,
                   to_visit, form_targets, cur, fetchLog, served, disallowedLog>>
    /\ UNCHANGED <<dashVars, fetchVars, storeVars, scoreVars, runVars, callVars>>

\* a query with a repeated key and a blank value
QDup == << <<"x", "1">>, <<"x", "2">>, <<"y", "">> >>

fA == Form(Href("http", "", <<"a">>, NoQuery, ""), "get", << <<"x", "1">> >>)

\* the URLs and the form targets a finished crawl of the seed may have left
TheSeed == CHOOSE u \in StartUrls : TRUE

VisitedPool ==
    {TheSeed, Url("h", <<>>, NoQuery, ""), Url("h", <<"a">>, QX1, ""),
     Url("h", <<"b">>, NoQuery, ""), Url("h", <<"s">>, QDup, "frag"),
     Url("h", <<"login">>, NoQuery, "")}

FormPool == {FormTarget(f, TheSeed) : f \in {fSelf, fLogin, fQuery, fA, fAdmin}}

FormLists == UNION {[1..n -> FormPool] : n \in 0..MaxForms}

\* crawl() has returned
TargetsInit ==
    /\ start_url = TheSeed
    /\ max_depth = 0
    /\ respect_robots = FALSE
    /\ robots = NoRobots
    /\ robotsOutcome = "off"
    /\ cpc = "done"
    /\ visited \in SUBSET VisitedPool
    /\ to_visit = <<>>
    /\ form_targets \in FormLists
    /\ cur = <<>>
    /\ fetchLog = <<>>
    /\ served = <<>>
    /\ disallowedLog = {}

TargetsNext == \E ord \in Orderings(Queried) : discover_targets(ord)

(***************************************************************************)
(* test_target: the four probing phases of one target, and the finding     *)
(* store. Each action is the return of the awaited fetch followed by the   *)
(* code up to the next fetch call.                                         *)
(***************************************************************************)
\* times are in tenths of a second
backoff_base == 4
timeout == 100
time_threshold == 20

\* a response text, by what the engine reads of it: its length as cx 'X'
\* characters and cy 'Y' characters, the indices of the SQL_ERRORS patterns
\* that match it, whether it matches the column-count-mismatch expression,
\* whether it holds the UNION marker, and the distance between the first error
\* match and the payload snippet (-1 when the snippet is absent)
Body(x, y, e, mm, mk, px) ==
    [cx |-> x, cy |-> y, errs |-> e, mismatch |-> mm, mark |-> mk, prox |-> px]

EmptyBody == Body(0, 0, {}, FALSE, FALSE, -1)
PageX == Body(1000, 0, {}, FALSE, FALSE, -1)
PageY == Body(0, 200, {}, FALSE, FALSE, -1)
PageErr == Body(1000, 0, {7}, FALSE, FALSE, 10)
PageMismatch == Body(1000, 0, {1, 6}, TRUE, FALSE, 300)
PageMark == Body(1000, 0, {}, FALSE, TRUE, -1)

ProbeBodies == {PageX, PageY, PageErr, PageMismatch, PageMark}

BodyLen(b) == b.cx + b.cy

Min(a, b) == IF a <= b THEN a ELSE b
Max(a, b) == IF a >= b THEN a ELSE b
Abs(a) == IF a >= 0 THEN a ELSE 0 - a

\* difflib.SequenceMatcher(None, a, b).quick_ratio() < ratio_threshold (0.90):
\* quick_ratio is 2 * (size of the multiset intersection) / (len(a) + len(b))
RatioBelow(a, b) ==
    20 * (Min(a.cx, b.cx) + Min(a.cy, b.cy)) < 9 * (BodyLen(a) + BodyLen(b))

\* (mutant) differ without the test for an empty side
differ_NoEmptyTest(a, b) ==
    \/ 50 * Abs(BodyLen(a) - BodyLen(b)) > Max(50 * 50, Max(BodyLen(a), BodyLen(b)))
    \/ RatioBelow(a, b)

\* differ: false on an empty side; else a length gap above
\* max(50, 0.02 * longer) or a similarity ratio below 0.90
differ(a, b) ==
    IF BodyLen(a) = 0 \/ BodyLen(b) = 0 THEN FALSE
    ELSE \/ 50 * Abs(BodyLen(a) - BodyLen(b)) > Max(50 * 50, Max(BodyLen(a), BodyLen(b)))
         \/ RatioBelow(a, b)

\* the texts differ is called on here: any number of blocks of 40 'X' and of
\* 40 'Y' characters
DifferTexts ==
    {Body(40 * x, 40 * y, {}, FALSE, FALSE, -1) : x \in 0..MaxUnits, y \in 0..MaxUnits}

NotReturned == [done |-> FALSE, val |-> FALSE]

DifferInit ==
    /\ call_args \in [a : DifferTexts, b : DifferTexts]
    /\ call_ret = NotReturned

CallParked ==
    /\ call_args = <<>>
    /\ call_ret = NotReturned

\* differ(a, b) returns
DifferCall ==
    /\ ~call_ret.done
    /\ call_ret' = [done |-> TRUE, val |-> differ(call_args.a, call_args.b)]
    /\ UNCHANGED call_args
    /\ CallFrame

DifferNext == DifferCall

\* one attempt of a scripted fetch: what the server does, how long the attempt
\* takes, and the jitter of the backoff sleep that follows it
Try(o, d, j) == [o |-> o, dur |-> d, jit |-> j]

\* backoff_base * (2 ** attempt) + random.uniform(0, 0.2)
Pow2(n) == IF n = 0 THEN 1 ELSE IF n = 1 THEN 2 ELSE IF n = 2 THEN 4 ELSE 8
Backoff(att, jit) == backoff_base * Pow2(att) + jit

\* fetch, run to its return over a script of attempts: the status and text
\* returned and the time the call took
RECURSIVE FetchRun(_, _, _)
FetchRun(script, att, elapsed) ==
    LET try == script[att + 1]
        step == fetch_step(try.o, att)
    IN IF step.pc = "returned"
         THEN [status |-> step.res.status,
               text |-> IF step.res.status = None THEN EmptyBody ELSE step.res.body,
               dt |-> elapsed + try.dur]
         ELSE FetchRun(script, att + 1, elapsed + try.dur + Backoff(att, try.jit))

\* the scripts of the model: each page answered at once, one page answered
\* after 0.3 s and after 2.2 s, a 500 on every attempt but the last, and
\* attempts that all time out or are all refused
Scripts ==
    {<<Try(Response(200, b), 1, 0)>> : b \in ProbeBodies}
        \cup {<<Try(Response(200, PageX), d, 0)>> : d \in {3, 22}}
        \cup {[i \in 1..(max_retries + 1) |->
                  IF i <= max_retries THEN Try(Response(500, PageErr), 1, 0)
                  ELSE Try(Response(200, PageX), 1, 0)]}
        \cup {[i \in 1..(max_retries + 1) |-> Try(Exc, timeout, 0)]}
        \cup {[i \in 1..(max_retries + 1) |-> Try(Exc, 0, 1)]}

\* a small site: a page with an SQL error, and another page after 2.2 s
SmallScripts ==
    {<<Try(Response(200, PageErr), 1, 0)>>, <<Try(Response(200, PageY), 22, 0)>>}

\* a site for the UNION phase: a stable page, a page with a column-count
\* mismatch error, and a page that echoes the marker
UnionScripts ==
    {<<Try(Response(200, b), 1, 0)>> : b \in {PageX, PageMismatch, PageMark}}

\* ---- payloads ----
\* [mp for pay in PAYLOADS['error'] for mp in mutate_payload(pay)]
AllErrorProbes == <<"'", "\"", "')", "\" )", "\"/**/)", "\"\t)", "\"\n)">>
ErrorProbes == SubSeq(AllErrorProbes, 1, Min(NumErrorProbes, Len(AllErrorProbes)))

\* mutate_payload(PAYLOADS[...][0])[0]: the first variant is the payload itself
BoolTrue(ctx) == IF ctx = "num" THEN " AND 1=1 -- " ELSE "' OR '1'='1' -- "
BoolFalse(ctx) == IF ctx = "num" THEN " AND 1=2 -- " ELSE "' OR '1'='2' -- "

\* time_payloads(self.time_threshold) + mssql, for a threshold of 2.0
TimePayloads == <<" AND SLEEP(2) -- ", "' OR SLEEP(2) -- ", "'; WAITFOR DELAY '0:0:2';-- ">>

\* pay.strip() of the above
TimeStripped == <<"AND SLEEP(2) --", "' OR SLEEP(2) --", "'; WAITFOR DELAY '0:0:2';--">>

\* ','.join(['NULL'] * n)
RECURSIVE NullList(_)
NullList(n) == IF n <= 1 THEN "NULL" ELSE NullList(n - 1) \o ",NULL"

UnionNum(n) == " UNION SELECT " \o NullList(n) \o " -- "
UnionStr(n) == "' UNION SELECT " \o NullList(n) \o " -- "

\* the confirmation payload, stripped: 'ZXUNIONZX' at index n // 2 of n columns
RECURSIVE MarkList(_, _, _)
MarkList(n, mid, i) ==
    LET col == IF i = mid THEN "'ZXUNIONZX'" ELSE "NULL"
    IN IF i = n - 1 THEN col ELSE col \o "," \o MarkList(n, mid, i + 1)

UnionConfirm(n) == " UNION SELECT " \o MarkList(n, n \div 2, 0) \o " -- "
UnionConfirmStripped(n) == "UNION SELECT " \o MarkList(n, n \div 2, 0) \o " --"

\* _seed_values: the original alone, or the de-duplicated seed list (cut to
\* the first MaxSeeds seeds)
RECURSIVE Dedup(_)
Dedup(s) ==
    IF s = <<>> THEN <<>>
    ELSE LET rest == Dedup(SubSeq(s, 1, Len(s) - 1))
         IN IF \E i \in 1..Len(rest) : rest[i] = s[Len(s)] THEN rest
            ELSE Append(rest, s[Len(s)])

AllSeeds(orig_val) ==
    Dedup(<<orig_val, "", "0", "1", "-1", "admin", "AAAAAAAAAAAAAAAAAAAAAAAAAAAAAAAA",
            "'\"<>&", "null">>)

_seed_values(orig_val) ==
    IF ~param_fuzz THEN <<orig_val>>
    ELSE SubSeq(AllSeeds(orig_val), 1, Min(MaxSeeds, Len(AllSeeds(orig_val))))

\* SQL_ERRORS, each pattern by its source text
SQL_ERRORS ==
    <<"SQLSTATE\\[[A-Z0-9]+\\]",
      "near \".*\": syntax error",
      "no such column",
      "unrecognized token",
      "unterminated (?:quoted )?string",
      "SELECTs to the left and right of UNION do not have the same number of result columns",
      "You have an error in your SQL syntax",
      "mysql_",
      "used SELECT statements have a different number of columns">>

\* ---- targets ----
Target(ty, u, ps) == [type |-> ty, url |-> u, params |-> ps]
UrlA == Url("h", <<"a">>, NoQuery, "")
tGet1 == Target("GET", UrlA, << <<"x", "1">> >>)
tGet2 == Target("GET", UrlA, << <<"x", "2">> >>)
tForm == Target("POST", Url("h", <<"login">>, NoQuery, ""),
                << <<"user", "bob">>, <<"pass", "test">> >>)
tBare == Target("POST", Url("h", <<"login">>, NoQuery, ""), <<>>)
\* the target stored for a form whose action attribute carries a query string
tQuery == FormTarget(fQuery, TheSeed)

ParamName(ps, i) == ps[i][1]
ParamValue(ps, i) == ps[i][2]
\* params[p] = v
SetParam(ps, i, v) == [ps EXCEPT ![i] = <<ps[i][1], v>>]

\* ---- scoring ----
\* (mutant) only a confirmed UNION is above Low
_risk_for_ErrorLow(tech) ==
    IF tech = "union-confirmed" THEN "Critical" ELSE "Low"

\* _risk_for
_risk_for(tech) ==
    IF tech = "union-confirmed" THEN "Critical"
    ELSE IF tech = "error-based" THEN "High"
    ELSE "Medium"

\* round(base, 1) on hundredths: Python rounds the binary double, which for
\* every sum _score_for forms from the evidence of one technique is the
\* nearest tenth with ties upwards, but for 7.5 + 0.05 (stored below 7.55) is 7.5
Round1(h) == IF h = 755 THEN 750 ELSE ((h + 5) \div 10) * 10

\* (mutant) the score is not capped
_score_for_NoCap(tech, evidence) ==
    LET base == IF tech = "union-confirmed" THEN 980
                ELSE IF tech = "error-based" THEN 860
                ELSE IF tech = "boolean-blind" THEN 750
                ELSE 700
        cols == IF "columns" \in DOMAIN evidence THEN evidence.columns * 5 ELSE 0
        dfs == IF "diffs" \in DOMAIN evidence THEN evidence.diffs * 5 ELSE 0
        px == IF "prox" \in DOMAIN evidence /\ evidence.prox >= 0 /\ evidence.prox < 200
                THEN 20 ELSE 0
    IN Round1(base + cols + dfs + px)

\* _score_for, in hundredths; evidence is a record holding the fields the
\* evidence string names
_score_for(tech, evidence) ==
    LET base == IF tech = "union-confirmed" THEN 980
                ELSE IF tech = "error-based" THEN 860
                ELSE IF tech = "boolean-blind" THEN 750
                ELSE 700
        cols == IF "columns" \in DOMAIN evidence
                  THEN Min(50, evidence.columns * 5) ELSE 0
        dfs == IF "diffs" \in DOMAIN evidence
                 THEN Min(30, evidence.diffs * 5) ELSE 0
        px == IF "prox" \in DOMAIN evidence /\ evidence.prox >= 0 /\ evidence.prox < 200
                THEN 20 ELSE 0
    IN Max(0, Min(1000, Round1(base + cols + dfs + px)))

\* the calls record makes of _score_for: the evidence of each technique, with
\* any number of columns or diffs and any proximity (-1: "n/a")
ScoreArgs ==
    {[tech |-> "union-confirmed", evidence |-> [columns |-> c]] : c \in 1..MaxEvidence}
        \cup {[tech |-> "boolean-blind", evidence |-> [rounds |-> MaxEvidence, diffs |-> d]] :
                  d \in 0..MaxEvidence}
        \cup {[tech |-> "error-based",
               evidence |-> [pat |-> SQL_ERRORS[7], status |-> 200, prox |-> x]] :
                  x \in -1..MaxProx}
        \cup {[tech |-> "time-based", evidence |-> [thr |-> time_threshold]]}

ScoreInit ==
    /\ score_args \in ScoreArgs
    /\ score_ret = -1

ScoreParked ==
    /\ score_args = <<>>
    /\ score_ret = -1

\* entry["score"] = _score_for(tech, evidence)
ScoreCall ==
    /\ score_ret = -1
    /\ score_ret' = _score_for(score_args.tech, score_args.evidence)
    /\ UNCHANGED score_args
    /\ ScoreFrame

ScoreNext == ScoreCall

\* ---- the finding store ----
Store(r, s, c, d) == [results |-> r, seen |-> s, cause |-> c, dropped |-> d]

\* (mutant) the key never holds the payload
Key_NoPayload(t, tech, param, payload) == <<t.url, t.type, param, tech>>

\* the key record() looks up in _seen_findings
Key(t, tech, param, payload) ==
    IF noise_grouping THEN <<t.url, t.type, param, tech>>
    ELSE <<t.url, t.type, param, tech, payload>>

NoExtra == [f \in {} |-> 0]

Entry(t, tech, param, payload, evidence, extra) ==
    [url |-> t.url, type |-> t.type, param |-> param, technique |-> tech,
     payload |-> payload, evidence |-> evidence, risk |-> _risk_for(tech),
     score |-> _score_for(tech, evidence)] @@ extra

\* (mutant) record without the look-up in _seen_findings
record_NoSeenTest(st, i, tech, param, payload, evidence, extra, why) ==
    Store(Append(st.results, Entry(targets[i], tech, param, payload, evidence, extra)),
          st.seen \cup {Key(targets[i], tech, param, payload)},
          Append(st.cause, [task |-> i, why |-> why]),
          st.dropped)

\* record, called by task i: insert-if-absent; it holds no await, so it runs
\* as one step. cause and dropped are not program state
record(st, i, tech, param, payload, evidence, extra, why) ==
    IF Key(targets[i], tech, param, payload) \in st.seen
      THEN [st EXCEPT !.dropped = st.dropped \cup {<<i, tech, param>>}]
      ELSE Store(Append(st.results, Entry(targets[i], tech, param, payload, evidence, extra)),
                 st.seen \cup {Key(targets[i], tech, param, payload)},
                 Append(st.cause, [task |-> i, why |-> why]),
                 st.dropped)

\* what a detection rests on: a fetch that returned (None, ""), or a response
Why(failed) == IF failed THEN "failure" ELSE "response"

\* ---- the frame of one test_target task ----
Blank(ps, bt) ==
    [pc |-> "done", pi |-> 0, si |-> 0, k |-> 0, ctx |-> "-", diffs |-> 0,
     t_resp |-> EmptyBody, t_base |-> 0, txt_n |-> EmptyBody, orig |-> "",
     params |-> ps, baseline_text |-> bt, t_failed |-> FALSE, failed |-> FALSE]

NumParams(fr) == Len(fr.params)

\* the frame awaiting a fetch at position pc of param i, whose value is v
Await(fr, pc, i, orig, v) ==
    [Blank(SetParam(fr.params, i, v), fr.baseline_text)
        EXCEPT !.pc = pc, !.pi = i, !.orig = orig]

\* UNION loop from param i on: the numeric probe of n = 1, or the end
StartUnion(fr, i) ==
    IF i > NumParams(fr) \/ union_max_columns < 1
      THEN Blank(fr.params, fr.baseline_text)
      ELSE [Await(fr, "union_n", i, ParamValue(fr.params, i),
                  ParamValue(fr.params, i) \o UnionNum(1)) EXCEPT !.k = 1]

\* time-based loop from param i on: the baseline timing fetch
StartTime(fr, i) ==
    IF ~time_based \/ i > NumParams(fr)
      THEN StartUnion(fr, 1)
      ELSE Await(fr, "time_base", i, ParamValue(fr.params, i), ParamValue(fr.params, i))

\* the true-payload fetch of round k of context ctx, seed s of param i
BoolAt(fr, i, orig, s, ctx, k, diffs, failed) ==
    [Await(fr, "bool_t", i, orig, _seed_values(orig)[s] \o BoolTrue(ctx))
        EXCEPT !.si = s, !.ctx = ctx, !.k = k, !.diffs = diffs, !.failed = failed]

\* boolean loop from param i on
StartBool(fr, i) ==
    IF i > NumParams(fr)
      THEN StartTime(fr, 1)
      ELSE BoolAt(fr, i, ParamValue(fr.params, i), 1, "num", 1, 0, FALSE)

\* the error probe k of seed s of param i
ErrorAt(fr, i, orig, s, k) ==
    [Await(fr, "error", i, orig, _seed_values(orig)[s] \o ErrorProbes[k])
        EXCEPT !.si = s, !.k = k]

\* error loop from param i on
StartError(fr, i) ==
    IF i > NumParams(fr)
      THEN StartBool(fr, 1)
      ELSE ErrorAt(fr, i, ParamValue(fr.params, i), 1, 1)

\* params[p] = original without effect
Restored_Not(fr) == fr

\* params[p] = original
Restored(fr) == [fr EXCEPT !.params = SetParam(fr.params, fr.pi, fr.orig)]

\* ---- the probing machine ----
\* a configuration of the detection tuning
Cfg(ng, tb, br, umc, pf) ==
    [noise_grouping |-> ng, time_based |-> tb, boolean_rounds |-> br,
     union_max_columns |-> umc, param_fuzz |-> pf]

\* no request is answered in a fixed way
NoAnswers == [r \in {} |-> <<>>]

Setup(ts, c, sc) == [targets |-> ts, cfg |-> c, scripts |-> sc, answers |-> NoAnswers]

\* a run against a site that answers each request in one way: the requests
\* of an have their own script, every other request has the script sc
SetupFixed(ts, c, sc, an) == [targets |-> ts, cfg |-> c, scripts |-> {sc}, answers |-> an]

\* the first Phase A request of a target: its first parameter with the first
\* error probe appended
FirstProbe(t) == SetParam(t.params, 1, ParamValue(t.params, 1) \o ErrorProbes[1])

\* a site on which the first Phase A request of tGet1 shows a column-count
\* mismatch error, that of tGet2 a MySQL syntax error, and every other
\* request the stable page
TwoErrors ==
    (FirstProbe(tGet1) :> <<Try(Response(200, PageMismatch), 1, 0)>>)
        @@ (FirstProbe(tGet2) :> <<Try(Response(200, PageErr), 1, 0)>>)

\* the runs of the model: one target probed against the full site with all
\* phases on, with MaxRounds boolean rounds, without noise grouping, and with
\* seed fuzzing; a target of two parameters with all phases on; a target without
\* parameters; a form target whose URL holds a query; one target probed for
\* up to three UNION columns; and two targets that share url, method and
\* parameter name, probed concurrently against a small site and against a
\* site whose answer is fixed by the request, and each of the two probed
\* alone against that site
Setups ==
    {Setup(<<tGet1>>, Cfg(TRUE, TRUE, 3, MaxColumns, FALSE), Scripts),
     Setup(<<tGet1>>, Cfg(TRUE, FALSE, MaxRounds, 0, FALSE), Scripts),
     Setup(<<tGet1>>, Cfg(FALSE, FALSE, 2, 1, FALSE), Scripts),
     Setup(<<tForm>>, Cfg(TRUE, FALSE, 1, 0, TRUE), Scripts),
     Setup(<<tBare>>, Cfg(TRUE, TRUE, 1, 1, FALSE), Scripts),
     Setup(<<tQuery>>, Cfg(TRUE, FALSE, 1, 0, FALSE), Scripts),
     Setup(<<tGet1>>, Cfg(TRUE, FALSE, 1, 3, FALSE), UnionScripts),
     Setup(<<tForm>>, Cfg(TRUE, TRUE, 1, 1, FALSE), UnionScripts),
     Setup(<<tGet1, tGet2>>, Cfg(TRUE, TRUE, 1, 1, FALSE), SmallScripts),
     SetupFixed(<<tGet1, tGet2>>, Cfg(TRUE, FALSE, 1, 0, FALSE),
                <<Try(Response(200, PageX), 1, 0)>>, TwoErrors),
     SetupFixed(<<tGet1>>, Cfg(TRUE, FALSE, 1, 0, FALSE),
                <<Try(Response(200, PageX), 1, 0)>>, TwoErrors),
     SetupFixed(<<tGet2>>, Cfg(TRUE, FALSE, 1, 0, FALSE),
                <<Try(Response(200, PageX), 1, 0)>>, TwoErrors)}

ProbeInit ==
    \E s \in Setups :
        /\ targets = s.targets
        /\ noise_grouping = s.cfg.noise_grouping
        /\ time_based = s.cfg.time_based
        /\ boolean_rounds = s.cfg.boolean_rounds
        /\ union_max_columns = s.cfg.union_max_columns
        /\ param_fuzz = s.cfg.param_fuzz
        /\ site = {FetchRun(sc, 0, 0) : sc \in s.scripts}
                      \cup {FetchRun(s.answers[r], 0, 0) : r \in DOMAIN s.answers}
        /\ answers = [r \in DOMAIN s.answers |-> FetchRun(s.answers[r], 0, 0)]
        /\ tt = [i \in 1..Len(s.targets) |->
                    [Blank(s.targets[i].params, EmptyBody) EXCEPT !.pc = "baseline"]]
        /\ results = <<>>
        /\ _seen_findings = {}
        /\ cause = <<>>
        /\ dropped = {}

ProbeParked ==
    /\ targets = <<>>
    /\ noise_grouping = FALSE
    /\ time_based = FALSE
    /\ boolean_rounds = 0
    /\ union_max_columns = 0
    /\ param_fuzz = FALSE
    /\ site = {}
    /\ answers = NoAnswers
    /\ tt = <<>>
    /\ results = <<>>
    /\ _seen_findings = {}
    /\ cause = <<>>
    /\ dropped = {}

\* the fetch machine while the probing machine runs: fetch is FetchRun
FetchSummarised ==
    /\ concurrency = 0
    /\ max_retries = MaxRetries
    /\ sem = 0
    /\ fstage = "off"
    /\ fpc = <<>>
    /\ attempt = <<>>
    /\ requests = <<>>
    /\ nfail = <<>>
    /\ flast = <<>>
    /\ fres = <<>>

TheStore == Store(results, _seen_findings, cause, dropped)

\* what the fetch task i awaits can return: the site's answer to its request
Answers(i) ==
    IF tt[i].params \in DOMAIN answers THEN {answers[tt[i].params]}
    ELSE site \ {answers[r] : r \in DOMAIN answers}

\* params is the dict of the target itself
AfterAssign_Aliased(ts, i, ps) == [ts EXCEPT ![i].params = ps]

\* line 338, params = target['params'].copy(): the dict the task assigns into
\* is its own, so the targets are what they were when the params of task i
\* have become ps
AfterAssign(ts, i, ps) == ts

\* task i moves to frame fr, the store becomes st
ProbeStep(i, fr, st) ==
    /\ tt' = [tt EXCEPT ![i] = fr]
    /\ targets' = AfterAssign(targets, i, fr.params)
    /\ results' = st.results
    /\ _seen_findings' = st.seen
    /\ cause' = st.cause
    /\ dropped' = st.dropped
    /\ UNCHANGED <<site, answers, noise_grouping, time_based, boolean_rounds,
                   union_max_columns, param_fuzz>>

\* (mutant) the first pattern is reported whether or not it matches
RecordErrors_NoMatchTest(st, i, param, mp, o, pat) ==
    record(st, i, "error-based", param, mp,
           [pat |-> SQL_ERRORS[1], status |-> o.status, prox |-> o.text.prox],
           NoExtra, Why(o.status = None))

\* for pat in SQL_ERRORS: if pat.search(txt): record("error-based", ...)
RECURSIVE RecordErrors(_, _, _, _, _, _)
RecordErrors(st, i, param, mp, o, pat) ==
    IF pat > Len(SQL_ERRORS) THEN st
    ELSE RecordErrors(
            IF pat \in o.text.errs
              THEN record(st, i, "error-based", param, mp,
                          [pat |-> SQL_ERRORS[pat], status |-> o.status,
                           prox |-> o.text.prox],
                          NoExtra, Why(o.status = None))
              ELSE st,
            i, param, mp, o, pat + 1)

\* line 339: the baseline fetch returns
ProbeBaseline(i, o) ==
    /\ tt[i].pc = "baseline"
    /\ o \in Answers(i)
    /\ ProbeStep(i, StartError(Blank(tt[i].params, o.text), 1), TheStore)
    /\ ProbeFrame

\* line 446: an error probe returns
ProbeError(i, o) ==
    /\ tt[i].pc = "error"
    /\ o \in Answers(i)
    /\ LET fr == tt[i]
           seeds == _seed_values(fr.orig)
           next == IF fr.k < Len(ErrorProbes)
                     THEN ErrorAt(fr, fr.pi, fr.orig, fr.si, fr.k + 1)
                   ELSE IF fr.si < Len(seeds)
                     THEN ErrorAt(fr, fr.pi, fr.orig, fr.si + 1, 1)
                   ELSE StartError(Restored(fr), fr.pi + 1)
       IN ProbeStep(i, next,
                    RecordErrors(TheStore, i, ParamName(fr.params, fr.pi),
                                 ErrorProbes[fr.k], o, 1))
    /\ ProbeFrame

\* lines 471 / 491: the true-payload fetch of a boolean round returns
ProbeBoolTrue(i, o) ==
    /\ tt[i].pc = "bool_t"
    /\ o \in Answers(i)
    /\ LET fr == tt[i]
           seed == _seed_values(fr.orig)[fr.si]
       IN ProbeStep(i, [fr EXCEPT !.pc = "bool_f", !.t_resp = o.text,
                                  !.t_failed = (o.status = None),
                                  !.params = SetParam(fr.params, fr.pi,
                                                      seed \o BoolFalse(fr.ctx))],
                    TheStore)
    /\ ProbeFrame

\* diffs >= max(2, (self.boolean_rounds + 1) // 2)
BoolAccepted(diffs) == diffs >= Max(2, (boolean_rounds + 1) \div 2)

\* lines 473 / 493: the false-payload fetch of a boolean round returns
ProbeBoolFalse(i, o) ==
    /\ tt[i].pc = "bool_f"
    /\ o \in Answers(i)
    /\ LET fr == tt[i]
           seeds == _seed_values(fr.orig)
           d == differ(fr.t_resp, o.text)
           diffs == IF d THEN fr.diffs + 1 ELSE fr.diffs
           failed == fr.failed \/ (d /\ (fr.t_failed \/ o.status = None))
           next == IF fr.ctx = "num"
                     THEN BoolAt(fr, fr.pi, fr.orig, fr.si, "str", 1, 0, FALSE)
                   ELSE IF fr.si < Len(seeds)
                     THEN BoolAt(fr, fr.pi, fr.orig, fr.si + 1, "num", 1, 0, FALSE)
                   ELSE StartBool(Restored(fr), fr.pi + 1)
       IN IF fr.k < boolean_rounds
            THEN ProbeStep(i, BoolAt(fr, fr.pi, fr.orig, fr.si, fr.ctx, fr.k + 1,
                                     diffs, failed),
                           TheStore)
            ELSE ProbeStep(i, next,
                           IF BoolAccepted(diffs)
                             THEN record(TheStore, i,
                                         "boolean-blind", ParamName(fr.params, fr.pi),
                                         BoolTrue(fr.ctx) \o "/" \o BoolFalse(fr.ctx),
                                         [rounds |-> boolean_rounds, diffs |-> diffs],
                                         NoExtra, Why(failed))
                             ELSE TheStore)
    /\ ProbeFrame

\* the time-payload fetch k of param i
TimeAt(fr, k, t_base) ==
    [Await(fr, "time_pay", fr.pi, fr.orig, fr.orig \o TimePayloads[k])
        EXCEPT !.k = k, !.t_base = t_base]

\* line 523: the baseline timing fetch returns
ProbeTimeBase(i, o) ==
    /\ tt[i].pc = "time_base"
    /\ o \in Answers(i)
    /\ ProbeStep(i, TimeAt(tt[i], 1, o.dt), TheStore)
    /\ ProbeFrame

\* (mutant) the baseline latency is not subtracted
Delayed_NoBaseline(dt, t_base) == 10 * dt >= 8 * time_threshold

\* dt - t_base >= self.time_threshold * 0.8
Delayed(dt, t_base) == 10 * (dt - t_base) >= 8 * time_threshold

\* line 531: the fetch of a delay payload returns
ProbeTimePayload(i, o) ==
    /\ tt[i].pc = "time_pay"
    /\ o \in Answers(i)
    /\ LET fr == tt[i]
           next == IF fr.k < Len(TimePayloads)
                     THEN TimeAt(fr, fr.k + 1, fr.t_base)
                     ELSE StartTime(Restored(fr), fr.pi + 1)
       IN ProbeStep(i, next,
                    IF Delayed(o.dt, fr.t_base)
                      THEN record(TheStore, i, "time-based",
                                  ParamName(fr.params, fr.pi), TimeStripped[fr.k],
                                  [thr |-> time_threshold],
                                  NoExtra, Why(o.status = None))
                      ELSE TheStore)
    /\ ProbeFrame

\* line 547: the numeric UNION probe of n columns returns
ProbeUnionNum(i, o) ==
    /\ tt[i].pc = "union_n"
    /\ o \in Answers(i)
    /\ LET fr == tt[i]
       IN ProbeStep(i, [Await(fr, "union_s", fr.pi, fr.orig, fr.orig \o UnionStr(fr.k))
                           EXCEPT !.k = fr.k, !.txt_n = o.text],
                    TheStore)
    /\ ProbeFrame

has_col_mismatch(s) == s.mismatch

\* lines 557-559: n is accepted as the column count
UnionAccepted(txt_n, txt_s) ==
    /\ \/ BodyLen(txt_n) > 0 /\ ~has_col_mismatch(txt_n)
       \/ BodyLen(txt_s) > 0 /\ ~has_col_mismatch(txt_s)
    /\ ~has_col_mismatch(txt_n)
    /\ ~has_col_mismatch(txt_s)

\* line 551: the string UNION probe of n columns returns
ProbeUnionStr(i, o) ==
    /\ tt[i].pc = "union_s"
    /\ o \in Answers(i)
    /\ LET fr == tt[i]
           next == IF UnionAccepted(fr.txt_n, o.text)
                     THEN [Await(fr, "union_c", fr.pi, fr.orig,
                                 fr.orig \o UnionConfirm(fr.k)) EXCEPT !.k = fr.k]
                   ELSE IF fr.k < union_max_columns
                     THEN [Await(fr, "union_n", fr.pi, fr.orig,
                                 fr.orig \o UnionNum(fr.k + 1)) EXCEPT !.k = fr.k + 1]
                   ELSE StartUnion(Restored(fr), fr.pi + 1)
       IN ProbeStep(i, next, TheStore)
    /\ ProbeFrame

\* (mutant) only an echoed marker confirms
UnionConfirmed_MarkOnly(union_text, baseline_text) ==
    BodyLen(union_text) > 0 /\ union_text.mark

\* union_text and (mark in union_text or differ(union_text, baseline_text))
UnionConfirmed(union_text, baseline_text) ==
    BodyLen(union_text) > 0 /\ (union_text.mark \/ differ(union_text, baseline_text))

\* line 570: the confirmation fetch returns
ProbeUnionConfirm(i, o) ==
    /\ tt[i].pc = "union_c"
    /\ o \in Answers(i)
    /\ LET fr == tt[i]
       IN ProbeStep(i, StartUnion(Restored(fr), fr.pi + 1),
                    IF UnionConfirmed(o.text, fr.baseline_text)
                      THEN record(TheStore, i, "union-confirmed",
                                  ParamName(fr.params, fr.pi),
                                  UnionConfirmStripped(fr.k),
                                  [columns |-> fr.k], [columns |-> fr.k],
                                  Why(o.status = None))
                      ELSE TheStore)
    /\ ProbeFrame

ProbeNext ==
    \/ \E i \in DOMAIN tt, o \in site : ProbeBaseline(i, o)
    \/ \E i \in DOMAIN tt, o \in site : ProbeError(i, o)
    \/ \E i \in DOMAIN tt, o \in site : ProbeBoolTrue(i, o)
    \/ \E i \in DOMAIN tt, o \in site : ProbeBoolFalse(i, o)
    \/ \E i \in DOMAIN tt, o \in site : ProbeTimeBase(i, o)
    \/ \E i \in DOMAIN tt, o \in site : ProbeTimePayload(i, o)
    \/ \E i \in DOMAIN tt, o \in site : ProbeUnionNum(i, o)
    \/ \E i \in DOMAIN tt, o \in site : ProbeUnionStr(i, o)
    \/ \E i \in DOMAIN tt, o \in site : ProbeUnionConfirm(i, o)

(***************************************************************************)
(* One scan of the dashboard: run_scan._run on the worker loop, from its   *)
(* first step to the end of export_results, and the request threads that   *)
(* serve /api/results meanwhile. latest_scan.json may hold the export of   *)
(* an earlier scan.                                                        *)
(***************************************************************************)
Readers == 1..NumReaders

\* a finding, by the scan that recorded it and its place in that scan's list
Finding(scan, n) == [scan |-> scan, n |-> n]

\* the findings the earlier scan exported
OldResults == [n \in 1..NumOld |-> Finding("old", n)]

\* a piece of the text json.dump writes: the opening bracket, an entry (all
\* but the first led by a comma), or the closing bracket
Piece(kind, first, e) == [kind |-> kind, first |-> first, e |-> e]

\* json.dump(list, f, indent=2), as the pieces of its text
Dump(list) ==
    <<Piece("[", FALSE, Finding("-", 0))>>
        \o [n \in 1..Len(list) |-> Piece("entry", n = 1, list[n])]
        \o <<Piece("]", FALSE, Finding("-", 0))>>

\* is the text a JSON array
WellFormed(text) ==
    /\ Len(text) >= 2
    /\ text[1].kind = "["
    /\ text[Len(text)].kind = "]"
    /\ \A n \in 2..(Len(text) - 1) : text[n].kind = "entry" /\ (text[n].first <=> n = 2)

\* load_latest on the text it read: json.load, and [] when it raises
Load(text) ==
    IF WellFormed(text) THEN [n \in 1..(Len(text) - 2) |-> text[n + 1].e] ELSE <<>>

File(exists, text) == [exists |-> exists, text |-> text]

\* the request thread r: pc, the text read so far, and the list returned
Reader(pc, buf, ret) == [pc |-> pc, buf |-> buf, ret |-> ret]

\* positions of _run inside export_results
ExportPcs == {"export_json", "export_csv", "export_pdf", "latest_open", "latest_write"}

RunInit ==
    /\ scan_in_progress = FALSE
    /\ rpc = <<>>
    /\ rkind = <<>>
    /\ resp = <<>>
    /\ issuedDuring = <<>>
    /\ loop_callbacks = <<>>
    /\ phase = <<>>
    /\ run_pc = "created"
    /\ pages = 0
    /\ task_pc = [t \in Probers |-> "none"]
    /\ scanner_results = <<>>
    /\ json_file = "none"
    /\ csv_file = "none"
    /\ pdf_file = "none"
    /\ latest_file \in {File(FALSE, <<>>), File(TRUE, Dump(OldResults))}
    /\ reader = [r \in Readers |-> Reader("new", <<>>, <<>>)]

RunParked ==
    /\ run_pc = "off"
    /\ pages = 0
    /\ task_pc = <<>>
    /\ scanner_results = <<>>
    /\ json_file = "none"
    /\ csv_file = "none"
    /\ pdf_file = "none"
    /\ latest_file = File(FALSE, <<>>)
    /\ reader = <<>>

\* the steps below change these and nothing else of the run
RunStep(pc) ==
    /\ run_pc' = pc
    /\ RunFrame

\* dashboard.py 360-375: scan_in_progress = True, build the scanner, enter
\* scanner.run(), which awaits crawl()
RunBegins ==
    /\ run_pc = "created"
    /\ scan_in_progress' = TRUE
    /\ RunStep("crawl")
    /\ UNCHANGED <<pages, task_pc, scanner_results, json_file, csv_file, pdf_file,
                   latest_file, reader>>

\* crawl(): one more page is fetched
CrawlFetches ==
    /\ run_pc = "crawl"
    /\ pages < MaxPages
    /\ pages' = pages + 1
    /\ RunStep("crawl")
    /\ UNCHANGED <<scan_in_progress, task_pc, scanner_results, json_file, csv_file,
                   pdf_file, latest_file, reader>>

\* app.py 579-584: crawl() returns, discover_targets, one test_target task per
\* target, gather
CrawlLoopEnds ==
    /\ run_pc = "crawl"
    /\ task_pc' = [t \in Probers |-> "new"]
    /\ RunStep("probe")
    /\ UNCHANGED <<scan_in_progress, pages, scanner_results, json_file, csv_file,
                   pdf_file, latest_file, reader>>

\* the task t exists and has not run yet
TaskStarted(t) == run_pc = "probe" /\ task_pc[t] = "new"

\* test_target: the task sends its baseline request
TaskBaseline(t) ==
    /\ TaskStarted(t)
    /\ task_pc' = [task_pc EXCEPT ![t] = "baseline"]
    /\ RunStep(run_pc)
    /\ UNCHANGED <<scan_in_progress, pages, scanner_results, json_file, csv_file,
                   pdf_file, latest_file, reader>>

\* test_target: the baseline fetch returns, the task sends a probe
TaskProbes(t) ==
    /\ run_pc = "probe"
    /\ task_pc[t] = "baseline"
    /\ task_pc' = [task_pc EXCEPT ![t] = "probe"]
    /\ RunStep(run_pc)
    /\ UNCHANGED <<scan_in_progress, pages, scanner_results, json_file, csv_file,
                   pdf_file, latest_file, reader>>

\* test_target: the probe's fetch returns; record appends a finding if the
\* probe hit; the task ends
TaskEnds(t, hit) ==
    /\ run_pc = "probe"
    /\ task_pc[t] = "probe"
    /\ task_pc' = [task_pc EXCEPT ![t] = "done"]
    /\ scanner_results' = IF hit THEN Append(scanner_results,
                                             Finding("new", Len(scanner_results) + 1))
                          ELSE scanner_results
    /\ RunStep(run_pc)
    /\ UNCHANGED <<scan_in_progress, pages, json_file, csv_file, pdf_file,
                   latest_file, reader>>

\* (mutant) the exception leaves _run without the reset of the flag
RunRaises_NoFinally ==
    /\ run_pc \in {"crawl", "probe"}
    /\ RunStep("interrupted")
    /\ UNCHANGED <<scan_in_progress, pages, task_pc, scanner_results, json_file,
                   csv_file, pdf_file, latest_file, reader>>

\* an exception leaves scanner.run() (the crawl or a task raises, or the
\* coroutine is cancelled): export_results is not called, and the finally
\* clause of _run resets the flag (dashboard.py 378-379)
RunRaises ==
    /\ run_pc \in {"crawl", "probe"}
    /\ scan_in_progress' = FALSE
    /\ RunStep("interrupted")
    /\ UNCHANGED <<pages, task_pc, scanner_results, json_file, csv_file, pdf_file,
                   latest_file, reader>>

\* (mutant) gather returns with the first task that ends
AllTasksDone_Any == \E t \in Probers : task_pc[t] = "done"

\* await asyncio.gather(*tasks) returns
AllTasksDone == \A t \in Probers : task_pc[t] = "done"

\* scanner.run() returns; _run calls export_results()
GatherReturns ==
    /\ run_pc = "probe"
    /\ AllTasksDone
    /\ RunStep("export_json")
    /\ UNCHANGED <<scan_in_progress, pages, task_pc, scanner_results, json_file,
                   csv_file, pdf_file, latest_file, reader>>

\* app.py 591-592: write scan_<ts>.json; open or json.dump may raise, and
\* being under no try the exception leaves export_results and _run, whose
\* finally clause resets the flag
ExportJson(ok) ==
    /\ run_pc = "export_json"
    /\ json_file' = IF ok THEN "written" ELSE "partial"
    /\ scan_in_progress' = IF ok THEN scan_in_progress ELSE FALSE
    /\ RunStep(IF ok THEN "export_csv" ELSE "export_failed")
    /\ UNCHANGED <<pages, task_pc, scanner_results, csv_file, pdf_file, latest_file,
                   reader>>

\* app.py 595-599: write scan_<ts>.csv; an exception leaves export_results
ExportCsv(ok) ==
    /\ run_pc = "export_csv"
    /\ csv_file' = IF ok THEN "written" ELSE "partial"
    /\ scan_in_progress' = IF ok THEN scan_in_progress ELSE FALSE
    /\ RunStep(IF ok THEN "export_pdf" ELSE "export_failed")
    /\ UNCHANGED <<pages, task_pc, scanner_results, json_file, pdf_file, latest_file,
                   reader>>

\* app.py 602-643: the PDF, if reportlab is there; any exception is swallowed
ExportPdf(ok) ==
    /\ run_pc = "export_pdf"
    /\ pdf_file' = IF ok THEN "written" ELSE "skipped"
    /\ RunStep("latest_open")
    /\ UNCHANGED <<scan_in_progress, pages, task_pc, scanner_results, json_file,
                   csv_file, latest_file, reader>>

\* app.py 647: open("latest_scan.json", "w") truncates the file; if it raises,
\* the except clause passes and export_results goes on to its last print
LatestOpen(ok) ==
    /\ run_pc = "latest_open"
    /\ latest_file' = IF ok THEN File(TRUE, <<>>) ELSE latest_file
    /\ RunStep(IF ok THEN "latest_write" ELSE "exported")
    /\ UNCHANGED <<scan_in_progress, pages, task_pc, scanner_results, json_file,
                   csv_file, pdf_file, reader>>

\* app.py 648: json.dump writes the next piece of the text, or raises and
\* leaves the file as it is
LatestWrite(ok) ==
    /\ run_pc = "latest_write"
    /\ Len(latest_file.text) < Len(Dump(scanner_results))
    /\ latest_file' = IF ok THEN File(TRUE, Append(latest_file.text,
                                       Dump(scanner_results)[Len(latest_file.text) + 1]))
                      ELSE latest_file
    /\ RunStep(IF ok THEN "latest_write" ELSE "exported")
    /\ UNCHANGED <<scan_in_progress, pages, task_pc, scanner_results, json_file,
                   csv_file, pdf_file, reader>>

\* the with block ends: the text is complete
LatestClose ==
    /\ run_pc = "latest_write"
    /\ Len(latest_file.text) = Len(Dump(scanner_results))
    /\ RunStep("exported")
    /\ UNCHANGED <<scan_in_progress, pages, task_pc, scanner_results, json_file,
                   csv_file, pdf_file, latest_file, reader>>

\* export_results returns; dashboard.py 379: finally: scan_in_progress = False
RunEnds ==
    /\ run_pc = "exported"
    /\ scan_in_progress' = FALSE
    /\ RunStep("done")
    /\ UNCHANGED <<pages, task_pc, scanner_results, json_file, csv_file, pdf_file,
                   latest_file, reader>>

\* a step of a request thread: only the reader changes
ReaderStep(r, rd) ==
    /\ reader' = [reader EXCEPT ![r] = rd]
    /\ UNCHANGED <<scan_in_progress, run_pc, pages, task_pc, scanner_results,
                   json_file, csv_file, pdf_file, latest_file>>
    /\ RunFrame

\* dashboard.py 432-442: api_results reads the flag; while it is set the
\* handler answers with no results
api_results(r) ==
    /\ reader[r].pc = "new"
    /\ ReaderStep(r, IF scan_in_progress THEN Reader("done", <<>>, <<>>)
                     ELSE Reader("load", <<>>, <<>>))

\* dashboard.py 345: load_latest opens the file; a missing file raises, and
\* load_latest returns []
load_latest_open(r) ==
    /\ reader[r].pc = "load"
    /\ ReaderStep(r, IF latest_file.exists THEN Reader("read", <<>>, <<>>)
                     ELSE Reader("done", <<>>, <<>>))

\* dashboard.py 346: json.load reads the file from where it stands: the next
\* piece, or at the end of the file the parse of what was read. The handler
\* returns the list (each entry enriched, none added or dropped)
load_latest_read(r) ==
    /\ reader[r].pc = "read"
    /\ LET rd == reader[r]
       IN IF Len(rd.buf) < Len(latest_file.text)
            THEN ReaderStep(r, Reader("read",
                                      Append(rd.buf, latest_file.text[Len(rd.buf) + 1]),
                                      <<>>))
            ELSE ReaderStep(r, Reader("done", rd.buf, Load(rd.buf)))

\* the steps of the worker loop
WorkerNext ==
    \/ RunBegins
    \/ CrawlFetches
    \/ CrawlLoopEnds
    \/ \E t \in Probers : TaskBaseline(t)
    \/ \E t \in Probers : TaskProbes(t)
    \/ \E t \in Probers, hit \in BOOLEAN : TaskEnds(t, hit)
    \/ RunRaises
    \/ GatherReturns
    \/ \E ok \in BOOLEAN : ExportJson(ok)
    \/ \E ok \in BOOLEAN : ExportCsv(ok)
    \/ \E ok \in BOOLEAN : ExportPdf(ok)
    \/ \E ok \in BOOLEAN : LatestOpen(ok)
    \/ \E ok \in BOOLEAN : LatestWrite(ok)
    \/ LatestClose
    \/ RunEnds

\* the steps of the request threads
ReaderNext ==
    \/ \E r \in Readers : api_results(r)
    \/ \E r \in Readers : load_latest_open(r)
    \/ \E r \in Readers : load_latest_read(r)

RunNext == WorkerNext \/ ReaderNext

(***************************************************************************)
(* mutate_payload (src/app.py:63-169). A string is the sequence of its     *)
(* characters, each a one-character string.                                *)
(***************************************************************************)
PAYLOADS ==
    [error |-> <<<<"'">>, <<"\"">>, <<"'", ")">>, <<"\"", " ", ")">>>>,
     boolean_num_true |-> <<<<" ", "A", "N", "D", " ", "1", "=", "1", " ", "-", "-", " ">>>>,
     boolean_num_false |-> <<<<" ", "A", "N", "D", " ", "1", "=", "2", " ", "-", "-", " ">>>>,
     boolean_str_true |-> <<<<"'", " ", "O", "R", " ", "'", "1", "'", "=", "'", "1", "'", " ", "-", "-", " ">>>>,
     boolean_str_false |-> <<<<"'", " ", "O", "R", " ", "'", "1", "'", "=", "'", "2", "'", " ", "-", "-", " ">>>>,
     union |-> <<<<" ", "U", "N", "I", "O", "N", " ", "S", "E", "L", "E", "C", "T", " ", "1", " ", "-", "-", " ">>,
                 <<" ", "U", "N", "I", "O", "N", " ", "S", "E", "L", "E", "C", "T", " ", "1", ",", "2", " ", "-", "-", " ">>,
                 <<" ", "U", "N", "I", "O", "N", " ", "S", "E", "L", "E", "C", "T", " ", "1", ",", "2", ",", "3", " ", "-", "-", " ">>>>]

Uppers == <<"A", "B", "C", "D", "E", "F", "G", "H", "I", "J", "K", "L", "M", "N", "O", "P", "Q", "R", "S", "T", "U", "V", "W", "X", "Y", "Z">>
Lowers == <<"a", "b", "c", "d", "e", "f", "g", "h", "i", "j", "k", "l", "m", "n", "o", "p", "q", "r", "s", "t", "u", "v", "w", "x", "y", "z">>
Digits == {"0", "1", "2", "3", "4", "5", "6", "7", "8", "9"}

\* str.isalpha, str.upper and str.lower on one ASCII character
isalpha(c) == \E n \in 1..26 : c = Uppers[n] \/ c = Lowers[n]
LetterIndex(c) == CHOOSE n \in 1..26 : c = Uppers[n] \/ c = Lowers[n]
upper(c) == IF isalpha(c) THEN Uppers[LetterIndex(c)] ELSE c
lower(c) == IF isalpha(c) THEN Lowers[LetterIndex(c)] ELSE c

\* the classes \w and \s of the re module
IsWord(c) == isalpha(c) \/ c \in Digits \/ c = "_"
IsSpace(c) == c \in {" ", "\t", "\n", "\r", "\f"}

keywords == <<<<"U", "N", "I", "O", "N">>, <<"S", "E", "L", "E", "C", "T">>, <<"F", "R", "O", "M">>, <<"W", "H", "E", "R", "E">>, <<"A", "N", "D">>, <<"O", "R">>>>

\* (?i)\bkw\b matches at position i of s
MatchesAt(s, kw, i) ==
    /\ i + Len(kw) - 1 <= Len(s)
    /\ \A k \in 1..Len(kw) : upper(s[i + k - 1]) = kw[k]
    /\ (i = 1 \/ ~IsWord(s[i - 1]))
    /\ (i + Len(kw) > Len(s) \/ ~IsWord(s[i + Len(kw)]))

\* the three _repl functions: the text that replaces the matched keyword k
Repl(style, k) ==
    CASE style = "split" ->
           LET mid == IF Len(k) \div 2 > 1 THEN Len(k) \div 2 ELSE 1
           IN SubSeq(k, 1, mid) \o <<"/", "*", "*", "/">> \o SubSeq(k, mid + 1, Len(k))
      [] style = "versioned" -> <<"/", "*", "!">> \o k \o <<"*", "/">>
      [] style = "trail" -> k \o <<"/", "*", "x", "*", "/">>

\* re.sub(rf"(?i)\b{kw}\b", _repl, s): the matches are found left to right in s
\* and do not overlap
RECURSIVE SubKw(_, _, _, _)
SubKw(s, kw, style, i) ==
    IF i > Len(s) THEN <<>>
    ELSE IF MatchesAt(s, kw, i)
      THEN Repl(style, SubSeq(s, i, i + Len(kw) - 1)) \o SubKw(s, kw, style, i + Len(kw))
      ELSE <<s[i]>> \o SubKw(s, kw, style, i + 1)

split_kw(s, kw) == SubKw(s, kw, "split", 1)
versioned_kw(s, kw) == SubKw(s, kw, "versioned", 1)

\* 'for kw in keywords: tmp = f(tmp, kw)' over the first n keywords
RECURSIVE EachKw(_, _, _)
EachKw(s, style, n) ==
    IF n = 0 THEN s ELSE SubKw(EachKw(s, style, n - 1), keywords[n], style, 1)

kw_trail_comment(s) == EachKw(s, "trail", Len(keywords))

\* str.replace(old, new) from position i on
RECURSIVE replace(_, _, _, _)
replace(s, old, new, i) ==
    IF i > Len(s) THEN <<>>
    ELSE IF i + Len(old) - 1 <= Len(s) /\ SubSeq(s, i, i + Len(old) - 1) = old
      THEN new \o replace(s, old, new, i + Len(old))
      ELSE <<s[i]>> \o replace(s, old, new, i + 1)

whitespace_variant(s, repl) == replace(s, <<" ">>, repl, 1)

\* the end of the run of whitespace that starts at position i
RECURSIVE SkipSpace(_, _)
SkipSpace(s, i) == IF i <= Len(s) /\ IsSpace(s[i]) THEN SkipSpace(s, i + 1) ELSE i

\* re.sub(r"--\s*", "-- - ", s)
RECURSIVE SubDashes(_, _)
SubDashes(s, i) ==
    IF i > Len(s) THEN <<>>
    ELSE IF i + 1 <= Len(s) /\ s[i] = "-" /\ s[i + 1] = "-"
      THEN <<"-", "-", " ", "-", " ">> \o SubDashes(s, SkipSpace(s, i + 2))
      ELSE <<s[i]>> \o SubDashes(s, i + 1)

\* "--" in payload
HasLineComment(s) == \E i \in 1..(Len(s) - 1) : s[i] = "-" /\ s[i + 1] = "-"

case_alt(s) == [i \in 1..Len(s) |-> IF (i - 1) % 2 = 0 THEN upper(s[i]) ELSE lower(s[i])]

\* random.Random(42): whether the n-th call of random() returns less than 0.5
Random42 ==
    <<FALSE, TRUE, TRUE, TRUE, FALSE, FALSE, FALSE, TRUE, TRUE, TRUE,
      TRUE, FALSE, TRUE, TRUE, FALSE, FALSE, TRUE, FALSE, FALSE, TRUE>>

\* one draw for each letter, none for the other characters
case_rand(s) ==
    [i \in 1..Len(s) |->
        IF isalpha(s[i])
          THEN LET n == Cardinality({k \in 1..i : isalpha(s[k])})
               IN IF Random42[n] THEN upper(s[i]) ELSE lower(s[i])
          ELSE s[i]]

\* the arguments of the calls of add, in the order of the calls
Generated(payload) ==
    <<payload, EachKw(payload, "split", Len(keywords))>>
        \o [n \in 1..Len(keywords) |-> split_kw(payload, keywords[n])]
        \o <<EachKw(payload, "versioned", Len(keywords))>>
        \o [n \in 1..Len(keywords) |-> versioned_kw(payload, keywords[n])]
        \o <<whitespace_variant(payload, <<"/", "*", "*", "/">>),
             whitespace_variant(payload, <<"\t">>),
             whitespace_variant(payload, <<"\n">>)>>
        \o (IF HasLineComment(payload)
              THEN <<replace(payload, <<"-", "-">>, <<"-", "-", " ">>, 1),
                     replace(payload, <<"-", "-">>, <<"-", "-", "+">>, 1),
                     SubDashes(payload, 1)>>
              ELSE <<>>)
        \o <<kw_trail_comment(payload),
             case_alt(payload),
             case_rand(payload),
             replace(replace(payload, <<"U", "N", "I", "O", "N">>, <<"U", "N", "/", "*", "*", "/", "I", "O", "N">>, 1),
                     <<"u", "n", "i", "o", "n">>, <<"u", "n", "/", "*", "*", "/", "i", "o", "n">>, 1)>>

\* add without the test 'x not in seen'
add_NoSeenTest(st, x) ==
    IF x = <<>> THEN st
    ELSE [seen |-> st.seen \cup {x}, muts |-> Append(st.muts, x)]

\* add(x) on the pair of seen and muts
add(st, x) ==
    IF x = <<>> THEN st
    ELSE IF x \notin st.seen
      THEN [seen |-> st.seen \cup {x}, muts |-> Append(st.muts, x)]
      ELSE st

\* the calls of add on the first n arguments
RECURSIVE AddEach(_, _)
AddEach(xs, n) ==
    IF n = 0 THEN [seen |-> {}, muts |-> <<>>] ELSE add(AddEach(xs, n - 1), xs[n])

mutate_payload(payload) == AddEach(Generated(payload), Len(Generated(payload))).muts

\* the payloads test_target hands to mutate_payload
ErrorPayloads == {PAYLOADS.error[n] : n \in 1..Len(PAYLOADS.error)}
BooleanPayloads ==
    {PAYLOADS.boolean_num_true[1], PAYLOADS.boolean_num_false[1],
     PAYLOADS.boolean_str_true[1], PAYLOADS.boolean_str_false[1]}

\* further payloads: every string of at most MaxLen characters of Alphabet
Alphabet == {"O", "r", " ", "-", "'"}
MutateInputs ==
    ErrorPayloads \cup BooleanPayloads \cup UNION {[1..n -> Alphabet] : n \in 0..MaxLen}

MutateInit ==
    /\ call_args \in [payload : MutateInputs]
    /\ call_ret = NotReturned

\* mutate_payload(payload) returns
MutateCall ==
    /\ ~call_ret.done
    /\ call_ret' = [done |-> TRUE, val |-> mutate_payload(call_args.payload)]
    /\ UNCHANGED call_args
    /\ CallFrame

MutateNext == MutateCall

(***************************************************************************)
(* Specifications                                                          *)
(***************************************************************************)
InitDash == DashInit /\ FetchParked /\ CrawlParked /\ ProbeParked /\ ScoreParked /\ RunParked /\ CallParked

SpecDash == InitDash /\ [][DashNext]_vars

InitFetch == FetchInit /\ DashParked /\ CrawlParked /\ ProbeParked /\ ScoreParked /\ RunParked /\ CallParked

SpecFetch == InitFetch /\ [][FetchNext]_vars

InitCrawl == CrawlInit /\ DashParked /\ FetchParked /\ ProbeParked /\ ScoreParked /\ RunParked /\ CallParked

SpecCrawl == InitCrawl /\ [][CrawlNext]_vars

SpecSite == InitCrawl /\ [][SiteNext]_vars

\* the crawl coroutine is scheduled, and every fetch it awaits returns
SpecCrawlLive == InitCrawl /\ [][CrawlNext]_vars /\ WF_vars(CrawlNext)

InitTargets == TargetsInit /\ DashParked /\ FetchParked /\ ProbeParked /\ ScoreParked /\ RunParked /\ CallParked

SpecTargets == InitTargets /\ [][TargetsNext]_vars

InitProbe == FetchSummarised /\ DashParked /\ CrawlParked /\ ProbeInit /\ ScoreParked /\ RunParked /\ CallParked

SpecProbe == InitProbe /\ [][ProbeNext]_vars

InitScore == ScoreInit /\ DashParked /\ FetchParked /\ CrawlParked /\ ProbeParked /\ RunParked /\ CallParked

SpecScore == InitScore /\ [][ScoreNext]_vars

InitRun == RunInit /\ FetchParked /\ CrawlParked /\ ProbeParked /\ ScoreParked /\ CallParked

SpecRun == InitRun /\ [][RunNext]_vars

InitDiffer ==
    DifferInit /\ DashParked /\ FetchParked /\ CrawlParked /\ ProbeParked /\ ScoreParked /\ RunParked

SpecDiffer == InitDiffer /\ [][DifferNext]_vars

InitMutate ==
    MutateInit /\ DashParked /\ FetchParked /\ CrawlParked /\ ProbeParked /\ ScoreParked /\ RunParked

SpecMutate == InitMutate /\ [][MutateNext]_vars

\* the worker loop is scheduled fairly, and each request it awaits returns
SpecRunLive == InitRun /\ [][RunNext]_vars /\ WF_vars(WorkerNext)

(***************************************************************************)
(* Claims                                                                  *)
(***************************************************************************)
\* C1: a StartScan issued while a started scan is unfinished answers busy and
\* schedules nothing, so that at most one scan is scheduled or executing at a time.
C1_AtMostOneScan ==
    /\ \A r \in Requests :
         (rkind[r] = "api_scan" /\ issuedDuring[r] /\ rpc[r] = "done") => resp[r] = "busy"
    /\ Cardinality({s \in Requests : phase[s] \in ActivePhases}) <= 1

InFlight == {t \in FTasks : fpc[t] = "inflight"}

\* C2: the number of HTTP requests in flight (robots fetch, crawler fetches and
\* the requests of all probing tasks together) never exceeds concurrency.
C2_InFlightBounded == Cardinality(InFlight) <= concurrency

\* C2 witness: every slot is taken by a request in flight while a probing task waits for one
C2_Witness ==
    /\ fstage = "probe"
    /\ Cardinality(InFlight) = concurrency
    /\ \E t \in Probers : fpc[t] = "acquire"

\* the failures the claims name: transport failure or timeout, HTTP 429, HTTP 5xx
FailedRetryably(o) == o.kind = "exc" \/ o.status = 429 \/ o.status \in 500..599

\* C3: fetch returns a response exactly when the last attempt was answered with
\* a status other than 429 and 5xx; it then returns that response's status and
\* body after k+1 requests, k <= max_retries being the number of failed attempts
\* before it (one request when the first response is such a status).
C3_RetryThenReturn ==
    \A t \in FTasks :
        fpc[t] = "returned" =>
            /\ (fres[t].status # None) <=> ~FailedRetryably(flast[t])
            /\ ~FailedRetryably(flast[t]) =>
                  /\ fres[t] = [status |-> flast[t].status, body |-> flast[t].body]
                  /\ requests[t] = nfail[t] + 1
                  /\ nfail[t] <= max_retries

\* C3 witness: a call that failed as often as it may and then got a 200 with a body
C3_Witness ==
    \E t \in FTasks :
        /\ fpc[t] = "returned"
        /\ max_retries >= 1
        /\ nfail[t] = max_retries
        /\ requests[t] = max_retries + 1
        /\ fres[t] = [status |-> 200, body |-> "B2"]

\* C4: a fetch whose every attempt failed issues exactly max_retries+1 requests
\* and returns (None, ""); no fetch issues more than max_retries+1 requests or
\* ends by raising.
C4_ExhaustedRetries ==
    \A t \in FTasks :
        /\ requests[t] <= max_retries + 1
        /\ fpc[t] # "raised"
        /\ (fpc[t] = "returned" /\ FailedRetryably(flast[t])) =>
              /\ requests[t] = max_retries + 1
              /\ nfail[t] = requests[t]
              /\ fres[t] = [status |-> None, body |-> ""]

\* C4 witness: a call gave up after max_retries+1 failed attempts, the last a 5xx
C4_Witness ==
    \E t \in FTasks :
        /\ fpc[t] = "returned"
        /\ max_retries = MaxRetries
        /\ nfail[t] = max_retries + 1
        /\ flast[t] = Response(500, "E")
        /\ fres[t].status = None

\* C5: every visited URL has the seed's host, whatever links and form actions
\* the fetched pages contain.
C5_VisitedOnSeedHost == \A u \in visited : u.host = domain

\* C6: every visited URL was dequeued at a depth <= max_depth and nothing deeper
\* is ever fetched; the seed has depth 0 and whatever a page of depth d
\* contributes to the queue has depth d+1.
C6_DepthBounded ==
    /\ \A i \in 1..Len(fetchLog) : fetchLog[i].depth <= max_depth
    /\ visited = {fetchLog[i].url : i \in 1..Len(fetchLog)}
    /\ fetchLog # <<>> => fetchLog[1] = Item(start_url, 0)
    /\ \A k \in 1..Len(to_visit) :
          \/ to_visit[k] = Item(start_url, 0)
          \/ \E i \in 1..Len(fetchLog) : to_visit[k].depth = fetchLog[i].depth + 1

\* C6 witness: a page was fetched at depth max_depth and an unvisited URL found
\* on it, one level too deep, is at the head of the queue
C6_Witness ==
    /\ max_depth >= 1
    /\ \E i \in 1..Len(fetchLog) : fetchLog[i].depth = max_depth
    /\ cpc = "loop"
    /\ to_visit # <<>>
    /\ Head(to_visit).depth = max_depth + 1
    /\ Head(to_visit).url \notin visited

\* what the loaded robots.txt says of a URL
Denied(u) == \E pre \in robots.rules : IsPrefix(pre, u.path)

\* C7: with respect_robots and a robots.txt that was fetched and parsed, no
\* denied URL is visited or fetched by the crawler and no form with a denied
\* action is recorded as a target.
C7_RobotsRespected ==
    (respect_robots /\ robotsOutcome = "loaded") =>
        /\ \A u \in visited : ~Denied(u)
        /\ \A i \in 1..Len(fetchLog) : ~Denied(fetchLog[i].url)
        /\ \A i \in 1..Len(form_targets) : ~Denied(form_targets[i].url)

\* C7 witness: under "Disallow: /admin" the page that links /admin/x and holds
\* a form posting to /admin/f was processed (its other form is a target)
C7_Witness ==
    /\ respect_robots
    /\ robotsOutcome = "loaded"
    /\ robots.rules = {<<"admin">>}
    /\ cpc = "done"
    /\ \E i \in 1..Len(form_targets) : form_targets[i].url.path = <<"post">>
    /\ Cardinality(visited) >= 3

\* the URLs the pages of the model can lead to
UrlUniverse ==
    {Url(h, p, q, f) :
        h \in {"h", "evil"},
        p \in {<<>>, <<"a">>, <<"b">>, <<"s">>, <<"p">>, <<"post">>, <<"login">>,
               <<"admin", "x">>, <<"admin", "f">>},
        q \in {NoQuery, QX1, QId1},
        f \in {"", "top", "frag"}}

\* C8: when the robots.txt fetch fails or returns an empty body, or parsing
\* raises, every URL may be fetched and nothing is skipped for robots: each
\* robots test of the crawl answers as it does with respect_robots = false.
C8_RobotsFailureAllowsAll ==
    robotsOutcome \in {"fetch failed", "empty body", "parse error"} =>
        /\ \A u \in UrlUniverse : _can_fetch(u) /\ RobotsAllow(u)
        /\ disallowedLog = {}

\* C8 witness: parsing raised, and the crawl went on to visit /admin/x
C8_Witness ==
    /\ respect_robots
    /\ robotsOutcome = "parse error"
    /\ cpc = "done"
    /\ \E u \in visited : u.path = <<"admin", "x">>

\* C9: a probe fetch that ends in network failure (status None and an empty
\* body once the retries are exhausted) never causes a finding: no entry of the
\* result list rests on such a fetch, in any of the four phases.
C9_NoFindingFromFailure ==
    \A n \in 1..Len(cause) : cause[n].why # "failure"

\* the findings m and n of the result list share (url, method, param, technique)
SameIdentity(m, n) ==
    /\ results[m].url = results[n].url
    /\ results[m].type = results[n].type
    /\ results[m].param = results[n].param
    /\ results[m].technique = results[n].technique

\* C10: with noise_grouping = true the result list never holds two findings
\* with the same (url, method, param, technique), however the probing tasks
\* interleave.
C10_NoDuplicateFindings ==
    noise_grouping =>
        \A m, n \in 1..Len(results) : SameIdentity(m, n) => m = n

\* C10 witness: two tasks probe targets that share url, method and parameter
\* name; the first recorded an error-based finding, the second called record
\* for the same identity afterwards and was turned away
C10_Witness ==
    /\ noise_grouping
    /\ Len(targets) = 2
    /\ \E n \in 1..Len(results) :
          /\ results[n].technique = "error-based"
          /\ results[n].param = "x"
          /\ cause[n].task = 1
    /\ <<2, "error-based", "x">> \in dropped

\* the technique and the payload of the record call a task makes, if any,
\* when the fetch it awaits in frame fr returns
CallTech(fr) ==
    IF fr.pc = "error" THEN "error-based"
    ELSE IF fr.pc = "bool_f" THEN "boolean-blind"
    ELSE IF fr.pc = "time_pay" THEN "time-based"
    ELSE IF fr.pc = "union_c" THEN "union-confirmed"
    ELSE "none"

CallPayload(fr) ==
    IF fr.pc = "error" THEN ErrorProbes[fr.k]
    ELSE IF fr.pc = "bool_f" THEN BoolTrue(fr.ctx) \o "/" \o BoolFalse(fr.ctx)
    ELSE IF fr.pc = "time_pay" THEN TimeStripped[fr.k]
    ELSE IF fr.pc = "union_c" THEN UnionConfirmStripped(fr.k)
    ELSE "none"

\* the findings m and n of the result list share (url, method, param,
\* technique, payload)
SameIdentityAndPayload(m, n) ==
    SameIdentity(m, n) /\ results[m].payload = results[n].payload

\* a step in which a record call of task i is turned away leaves a finding
\* with the very payload of that call in the result list
TurnedAwayOnlyForSamePayload(i) ==
    LET fr == tt[i]
    IN (/\ CallTech(fr) # "none"
        /\ <<i, CallTech(fr), ParamName(fr.params, fr.pi)>> \notin dropped
        /\ <<i, CallTech(fr), ParamName(fr.params, fr.pi)>> \in dropped')
        => \E n \in 1..Len(results') :
              /\ results'[n].url = targets[i].url
              /\ results'[n].type = targets[i].type
              /\ results'[n].param = ParamName(fr.params, fr.pi)
              /\ results'[n].technique = CallTech(fr)
              /\ results'[n].payload = CallPayload(fr)

\* C11: with noise_grouping = false the identity of a finding includes the
\* payload: no two findings share (url, method, param, technique, payload),
\* and a detection is turned away only when a finding with its own payload is
\* there, so that detections with different payloads are both recorded.
C11_PayloadInIdentity ==
    /\ [](~noise_grouping =>
            \A m, n \in 1..Len(results) : SameIdentityAndPayload(m, n) => m = n)
    /\ [][~noise_grouping =>
            \A i \in DOMAIN tt : TurnedAwayOnlyForSamePayload(i)]_vars

\* C11 witness: without noise grouping, two error-based findings for the same
\* parameter of the same target, with different payloads, and a record call
\* with an already recorded payload turned away
C11_Witness ==
    /\ ~noise_grouping
    /\ \E m, n \in 1..Len(results) :
          /\ SameIdentity(m, n)
          /\ results[m].technique = "error-based"
          /\ results[m].payload # results[n].payload
    /\ <<1, "error-based", "x">> \in dropped

\* C12: every finding carries the URL of the target it was recorded for, that
\* URL holds no query string, and the finding's param is a key of the target's
\* params; for GET-query targets and for form targets alike.
C12_FindingNamesTarget ==
    \A n \in 1..Len(results) :
        LET t == targets[cause[n].task]
        IN /\ results[n].url = t.url
           /\ results[n].url.query = NoQuery
           /\ \E i \in 1..Len(t.params) : ParamName(t.params, i) = results[n].param

\* the risk the specification gives each technique
RiskOf(tech) ==
    CASE tech = "union-confirmed" -> "Critical"
      [] tech = "error-based" -> "High"
      [] tech \in {"boolean-blind", "time-based"} -> "Medium"
      [] OTHER -> "unknown"

\* C13: every finding has one of the four techniques and the risk fixed by
\* it: union-confirmed Critical, error-based High, boolean-blind and time-based
\* Medium; risk Low never appears.
C13_RiskByTechnique ==
    \A n \in 1..Len(results) :
        /\ results[n].technique \in
              {"error-based", "boolean-blind", "time-based", "union-confirmed"}
        /\ results[n].risk = RiskOf(results[n].technique)
        /\ results[n].risk # "Low"

\* C13 witness: one scan recorded a finding of each technique
C13_Witness ==
    \A tech \in {"error-based", "boolean-blind", "time-based", "union-confirmed"} :
        \E n \in 1..Len(results) :
            results[n].technique = tech /\ results[n].risk = RiskOf(tech)

\* base(technique) + adjustments of a call of _score_for, in hundredths
ExactSum(tech, evidence) ==
    LET base == CASE tech = "union-confirmed" -> 980
                  [] tech = "error-based" -> 860
                  [] tech = "boolean-blind" -> 750
                  [] OTHER -> 700
        cols == IF "columns" \in DOMAIN evidence
                  THEN (IF 5 * evidence.columns < 50 THEN 5 * evidence.columns ELSE 50)
                  ELSE 0
        dfs == IF "diffs" \in DOMAIN evidence
                 THEN (IF 5 * evidence.diffs < 30 THEN 5 * evidence.diffs ELSE 30)
                 ELSE 0
        px == IF "prox" \in DOMAIN evidence /\ evidence.prox \in 0..199 THEN 20 ELSE 0
    IN base + cols + dfs + px

\* C14: the score is min(10.0, base(technique) + adjustments) and nothing
\* else: no further rounding or adjustment is applied.
C14_ScoreIsExactSum ==
    score_ret # -1 =>
        LET sum == ExactSum(score_args.tech, score_args.evidence)
        IN score_ret = IF sum < 1000 THEN sum ELSE 1000

\* C15: every score lies in 0.0 .. 10.0, whatever the technique and the
\* columns, diffs and prox of the evidence.
C15_ScoreInRange == score_ret # -1 => (0 <= score_ret /\ score_ret <= 1000)

\* C15 witness: a confirmed UNION of 8 columns, whose sum 9.8 + 0.4 lies
\* above the cap, scored 10.0
C15_Witness ==
    /\ score_args.tech = "union-confirmed"
    /\ score_args.evidence.columns = 8
    /\ score_ret = 1000

\* the key of a target: (method, url, sorted (name, value) pairs)
KeyOf(t) == <<t.type, t.url, {t.params[i] : i \in 1..Len(t.params)}>>

\* the first occurrence of each key of the sequence c, in the order of c
FirstOccurrences(c) ==
    SelectSeq([i \in 1..Len(c) |-> [at |-> i, t |-> c[i]]],
              LAMBDA e : \A j \in 1..(e.at - 1) : KeyOf(c[j]) # KeyOf(e.t))

\* the GET-query targets of the visited URLs met in order ord, then the form
\* targets in discovery order
InSequence(ord) ==
    [i \in 1..Len(ord) |->
        [type |-> "GET", url |-> [ord[i] EXCEPT !.query = <<>>],
         params |-> ParseQs(ord[i].query)]] \o form_targets

\* C16: the registry holds no two targets with the same key (method, url,
\* sorted (name, value) pairs); it is the sequence 'GET-query targets, then
\* form targets in discovery order' cut down to the first occurrence of each
\* key, in the order of those first occurrences.
C16_RegistryDeduplicated ==
    cpc = "discovered" =>
        /\ \A i, j \in 1..Len(targets) : KeyOf(targets[i]) = KeyOf(targets[j]) => i = j
        /\ \E ord \in Orderings({u \in visited : u.query # <<>>}) :
              LET first == FirstOccurrences(InSequence(ord))
              IN targets = [i \in 1..Len(first) |-> first[i].t]

\* C16 witness: /a?x=1 was visited, and the form GET /a with x=1 was met on
\* two pages: of the three candidates with one key the registry keeps one
C16_Witness ==
    /\ cpc = "discovered"
    /\ Url("h", <<"a">>, QX1, "") \in visited
    /\ form_targets = <<FormTarget(fA, TheSeed), FormTarget(fA, TheSeed)>>
    /\ Cardinality({i \in 1..Len(targets) : targets[i].url.path = <<"a">>}) = 1
    /\ Len(targets) >= 2

\* C17: the targets of the registry that are not form targets are exactly the
\* targets (GET, URL without query, first value per key) of the visited URLs
\* with a non-empty query string; a visited URL without a query string gives
\* no target. A seed linking /a?x=1 and /b, crawled to depth 1, gives the one
\* target (GET, /a, {x: 1}); the seed http://h/?id=1 alone gives one target.
C17_GetTargetsFromQueries ==
    cpc = "discovered" =>
        /\ {targets[i] : i \in 1..Len(targets)} =
              {[type |-> "GET", url |-> [u EXCEPT !.query = <<>>],
                params |-> ParseQs(u.query)] : u \in {v \in visited : v.query # <<>>}}
                  \cup {form_targets[i] : i \in 1..Len(form_targets)}
        /\ (/\ visited = {Url("h", <<>>, NoQuery, ""), Url("h", <<"a">>, QX1, ""),
                          Url("h", <<"b">>, NoQuery, "")}
            /\ form_targets = <<>>)
              => targets = <<[type |-> "GET", url |-> Url("h", <<"a">>, NoQuery, ""),
                              params |-> << <<"x", "1">> >>]>>
        /\ (visited = {Url("h", <<>>, QId1, "")} /\ form_targets = <<>>)
              => targets = <<[type |-> "GET", url |-> Url("h", <<>>, NoQuery, ""),
                              params |-> << <<"id", "1">> >>]>>

\* C17 witness: the seed, /a?x=1 and /b were visited, no form was met, and
\* the registry holds one target
C17_Witness ==
    /\ cpc = "discovered"
    /\ visited = {Url("h", <<>>, NoQuery, ""), Url("h", <<"a">>, QX1, ""),
                  Url("h", <<"b">>, NoQuery, "")}
    /\ form_targets = <<>>
    /\ Len(targets) = 1

\* ceil((boolean_rounds + 1) / 2)
CeilHalf(rounds) == (rounds + 2) \div 2

\* C18: a boolean-blind finding is accepted only on a number of differing
\* rounds diffs >= max(2, ceil((boolean_rounds + 1) / 2)): every boolean-blind
\* finding of the result list shows such a count in its evidence.
C18_BooleanThreshold ==
    \A n \in 1..Len(results) :
        results[n].technique = "boolean-blind" =>
            /\ results[n].evidence.rounds = boolean_rounds
            /\ results[n].evidence.diffs >=
                  (IF CeilHalf(boolean_rounds) > 2 THEN CeilHalf(boolean_rounds) ELSE 2)

\* the time-based findings of the result list r for parameter param of target t
TimeFindings(r, t, param) ==
    {n \in 1..Len(r) : /\ r[n].technique = "time-based"
                       /\ r[n].url = t.url
                       /\ r[n].type = t.type
                       /\ r[n].param = param}

\* elapsed - baseline >= 0.8 * time_threshold, in tenths of a second
Flagged(elapsed, baseline) == 10 * (elapsed - baseline) >= 8 * time_threshold

\* the fetch of a delay payload by task i returns: a finding for the
\* parameter exists afterwards if the payload is flagged, and a finding is
\* added only if it is
TimeStep(i) ==
    \A o \in site :
        ProbeTimePayload(i, o) =>
            LET param == ParamName(tt[i].params, tt[i].pi)
            IN /\ Flagged(o.dt, tt[i].t_base) =>
                    TimeFindings(results', targets[i], param) # {}
               /\ ~Flagged(o.dt, tt[i].t_base) => results' = results

\* no step but the return of a delay payload's fetch adds a time-based finding
OnlyTimeStepsAdd ==
    (Len(results') > Len(results) /\ results'[Len(results')].technique = "time-based")
        => \E i \in DOMAIN tt : tt[i].pc = "time_pay" /\ tt'[i] # tt[i]

\* C19: with time_based = true a time-based finding is recorded for a param
\* if and only if some delay payload has elapsed - baseline >= 0.8 *
\* time_threshold, the baseline being the latency of a fetch with the
\* original params; without time_based none is recorded, and under
\* noise_grouping a param has at most one.
C19_TimeBasedIffDelayed ==
    /\ [](/\ \A i \in DOMAIN tt :
                tt[i].pc = "time_base" =>
                    (time_based /\ tt[i].params = targets[i].params)
          /\ ~time_based =>
                (\A n \in 1..Len(results) : results[n].technique # "time-based")
          /\ noise_grouping =>
                (\A i \in DOMAIN tt : \A j \in 1..Len(targets[i].params) :
                    Cardinality(TimeFindings(results, targets[i],
                                             ParamName(targets[i].params, j))) <= 1))
    /\ [][(\A i \in DOMAIN tt : TimeStep(i)) /\ OnlyTimeStepsAdd]_vars

\* C19 witness: the first delay payload was not flagged, the second was and
\* gave the one finding of the parameter, the third was flagged and collapsed
\* into it
C19_Witness ==
    /\ time_based /\ noise_grouping /\ Len(targets) = 1
    /\ Cardinality(TimeFindings(results, targets[1], "x")) = 1
    /\ \E n \in 1..Len(results) :
          results[n].technique = "time-based" /\ results[n].payload = TimeStripped[2]
    /\ <<1, "time-based", "x">> \in dropped

\* the string-context probe of n columns of task i returns: n is accepted
\* when neither response of the pair shows a column-count mismatch, and the
\* confirmation request follows; else n + 1 is probed, or the parameter is
\* left without a confirmation request
UnionStep(i) ==
    \A o \in site :
        ProbeUnionStr(i, o) =>
            IF ~tt[i].txt_n.mismatch /\ ~o.text.mismatch
              THEN tt'[i].pc = "union_c" /\ tt'[i].k = tt[i].k /\ tt'[i].pi = tt[i].pi
              ELSE /\ tt'[i].pc # "union_c"
                   /\ tt[i].k < union_max_columns =>
                         (tt'[i].pc = "union_n" /\ tt'[i].k = tt[i].k + 1)
                   /\ results' = results

\* C20: the column count accepted for a parameter is the smallest n in
\* 1..union_max_columns for which neither the numeric-context nor the
\* string-context response shows a column-count mismatch, empty responses
\* included; probing stops at that n, and when no n qualifies no confirmation
\* request is sent and no finding is recorded.
C20_UnionColumnCount == [][\A i \in DOMAIN tt : UnionStep(i)]_vars

\* the union-confirmed findings of the result list r for parameter param of
\* target t
UnionFindings(r, t, param) ==
    {n \in 1..Len(r) : /\ r[n].technique = "union-confirmed"
                       /\ r[n].url = t.url
                       /\ r[n].type = t.type
                       /\ r[n].param = param}

\* " UNION SELECT c0,...,c(n-1) -- ".strip() with 'ZXUNIONZX' at index
\* floor(n / 2) and NULL elsewhere
MarkerPayload(n) ==
    IF n = 1 THEN "UNION SELECT 'ZXUNIONZX' --"
    ELSE IF n = 2 THEN "UNION SELECT NULL,'ZXUNIONZX' --"
    ELSE IF n = 3 THEN "UNION SELECT NULL,'ZXUNIONZX',NULL --"
    ELSE "UNION SELECT NULL,NULL,'ZXUNIONZX',NULL --"

\* the response holds the marker, or Differ(response, baseline)
MarkerOrDiffers(response, baseline) ==
    response.mark \/ differ(response, baseline)

\* the confirmation fetch of task i returns, n being the accepted count: on
\* the marker or a differing response the parameter has a union-confirmed
\* finding afterwards, and the finding this step stores carries columns = n;
\* otherwise nothing is stored
ConfirmStep(i) ==
    \A o \in site :
        ProbeUnionConfirm(i, o) =>
            LET param == ParamName(tt[i].params, tt[i].pi)
                n == tt[i].k
            IN IF MarkerOrDiffers(o.text, tt[i].baseline_text)
                 THEN /\ UnionFindings(results', targets[i], param) # {}
                      /\ \/ UnionFindings(results, targets[i], param) # {}
                         \/ /\ Len(results') = Len(results) + 1
                            /\ LET e == results'[Len(results')]
                               IN /\ e.technique = "union-confirmed"
                                  /\ e.param = param
                                  /\ e.evidence = [columns |-> n]
                                  /\ e.columns = n
                                  /\ e.payload = MarkerPayload(n)
                                  /\ e.risk = "Critical"
                                  /\ e.score >= 980
                 ELSE results' = results

\* no step but the return of a confirmation fetch adds a union-confirmed finding
OnlyConfirmStepsAdd ==
    (Len(results') > Len(results)
        /\ results'[Len(results')].technique = "union-confirmed")
        => \E i \in DOMAIN tt : tt[i].pc = "union_c" /\ tt'[i] # tt[i]

\* C21: once a column count n is accepted, a union-confirmed finding with
\* evidence columns = n and field columns = n is recorded if and only if the
\* confirmation response (marker at column index floor(n / 2)) holds the
\* marker or differs from the baseline; its risk is Critical and its score
\* at least 9.8.
C21_UnionConfirmedIffMarkerOrDiffer ==
    [][(\A i \in DOMAIN tt : ConfirmStep(i)) /\ OnlyConfirmStepsAdd]_vars

\* C21 witness: mismatch errors for n = 1..2, a stable page for n = 3 and
\* the marker echoed: one union-confirmed finding, with columns = 3
C21_Witness ==
    /\ union_max_columns = 3 /\ Len(targets) = 1
    /\ tt[1].pc = "done"
    /\ tt[1].baseline_text = PageX
    /\ Cardinality(UnionFindings(results, targets[1], "x")) = 1
    /\ \E n \in 1..Len(results) :
          /\ results[n].technique = "union-confirmed"
          /\ results[n].columns = 3
          /\ results[n].evidence = [columns |-> 3]
          /\ results[n].payload = MarkerPayload(3)
          /\ results[n].risk = "Critical"
          /\ results[n].score >= 980

\* the error-based findings of the result list r for parameter param of target t
ErrorFindings(r, t, param) ==
    {n \in 1..Len(r) : /\ r[n].technique = "error-based"
                       /\ r[n].url = t.url
                       /\ r[n].type = t.type
                       /\ r[n].param = param}

\* the source texts of the patterns that match the response text
MatchedPatterns(text) == {SQL_ERRORS[p] : p \in text.errs}

\* a Phase A probe of task i returns: if its response matches a pattern the
\* parameter has an error-based finding afterwards, and a finding stored by
\* this step has risk High and names a pattern that matched the response; if
\* it matches none nothing is stored
ErrorStep(i) ==
    \A o \in site :
        ProbeError(i, o) =>
            LET param == ParamName(tt[i].params, tt[i].pi)
            IN IF MatchedPatterns(o.text) # {}
                 THEN /\ ErrorFindings(results', targets[i], param) # {}
                      /\ \/ ErrorFindings(results, targets[i], param) # {}
                         \/ /\ Len(results') = Len(results) + 1
                            /\ LET e == results'[Len(results')]
                               IN /\ e.technique = "error-based"
                                  /\ e.url = targets[i].url
                                  /\ e.type = targets[i].type
                                  /\ e.param = param
                                  /\ e.risk = "High"
                                  /\ e.evidence.pat \in MatchedPatterns(o.text)
                 ELSE results' = results

\* no step but the return of a Phase A probe adds an error-based finding
OnlyErrorStepsAdd ==
    (Len(results') > Len(results)
        /\ \E n \in (Len(results) + 1)..Len(results') :
              results'[n].technique = "error-based")
        => \E i \in DOMAIN tt : tt[i].pc = "error" /\ tt'[i] # tt[i]

\* a finding stays in the result list until the end of the scan
FindingsKept ==
    /\ Len(results') >= Len(results)
    /\ SubSeq(results', 1, Len(results)) = results

\* C22: under noise_grouping a parameter one of whose Phase A responses
\* matches a pattern of the error corpus has, at the end of the scan, exactly
\* one error-based finding, of risk High, whose evidence names a pattern that
\* matched such a response; a parameter none of whose Phase A responses
\* matches has no error-based finding.
C22_OneErrorFinding ==
    /\ [](noise_grouping =>
            \A i \in DOMAIN tt : \A j \in 1..Len(targets[i].params) :
                LET fs == ErrorFindings(results, targets[i],
                                        ParamName(targets[i].params, j))
                IN /\ Cardinality(fs) <= 1
                   /\ \A n \in fs : results[n].risk = "High")
    /\ [][(\A i \in DOMAIN tt : ErrorStep(i)) /\ OnlyErrorStepsAdd /\ FindingsKept]_vars

\* C22 witness: the scan of one target has ended; a probe of x answered with
\* 'You have an error in your SQL syntax', a later one with other errors, and
\* x has the one error-based finding, naming that pattern
C22_Witness ==
    /\ noise_grouping /\ Len(targets) = 1
    /\ \A i \in DOMAIN tt : tt[i].pc = "done"
    /\ Cardinality(ErrorFindings(results, targets[1], "x")) = 1
    /\ \E n \in ErrorFindings(results, targets[1], "x") :
          /\ results[n].risk = "High"
          /\ results[n].payload = "'"
          /\ results[n].evidence.pat = "You have an error in your SQL syntax"
    /\ <<1, "error-based", "x">> \in dropped

\* the first pattern of SQL_ERRORS that matches the text
FirstMatch(text) == SQL_ERRORS[CHOOSE p \in text.errs : \A q \in text.errs : p <= q]

\* the result list holds the error-based finding target t gets from its first
\* Phase A request when the site's answer to that request is fixed: the
\* first error probe as payload, and the first pattern that matches the answer
HasOwnErrorFinding(t) ==
    \E n \in 1..Len(results) :
        /\ results[n].url = t.url
        /\ results[n].type = t.type
        /\ results[n].param = ParamName(t.params, 1)
        /\ results[n].technique = "error-based"
        /\ results[n].payload = ErrorProbes[1]
        /\ results[n].evidence.pat = FirstMatch(answers[FirstProbe(t)].text)

\* C23: probing tasks are independent: with the site's answer fixed per
\* request, a target gets the same findings under every interleaving of the
\* other targets' tasks, and so the findings it gets when it is probed alone:
\* at the end of the scan every target whose first Phase A request is answered
\* with an SQL error has the finding that answer gives it, whatever the other
\* tasks stored before.
C23_TasksIndependent ==
    (\A i \in DOMAIN tt : tt[i].pc = "done") =>
        \A i \in DOMAIN targets :
            (/\ targets[i].params # <<>>
             /\ FirstProbe(targets[i]) \in DOMAIN answers
             /\ answers[FirstProbe(targets[i])].text.errs # {})
                => HasOwnErrorFinding(targets[i])

\* a list a finished export wrote to latest_scan.json in full: that of the
\* earlier scan, or that of this scan once its text is complete
FinishedExports ==
    {OldResults}
        \cup (IF run_pc \in {"latest_write", "exported", "done"}
               THEN {scanner_results} ELSE {})

\* C24: a Results() read that overlaps a scan or its export returns the
\* empty list or the complete finding list of one finished export, never a
\* partial list, under every interleaving of the request threads with the
\* worker loop.
C24_ConsistentSnapshot ==
    \A r \in Readers :
        reader[r].pc = "done" =>
            (reader[r].ret = <<>> \/ reader[r].ret \in FinishedExports)

\* _run has ended, by return or by an exception
RunOver == run_pc \in {"done", "interrupted", "export_failed"}

\* C25: every scan that was started eventually returns to Idle
\* (running = false), given that each HTTP attempt completes or times out and
\* that the worker loop is scheduled fairly, also when scanner.run() or
\* export_results() raises.
C25_ScanReturnsToIdle == (~RunOver) ~> (RunOver /\ scan_in_progress = FALSE)

\* C25 witness: scanner.run() raised while a task was still probing, and the
\* dashboard is idle again
C25_Witness ==
    /\ run_pc = "interrupted"
    /\ \E t \in Probers : task_pc[t] = "probe"
    /\ scan_in_progress = FALSE

\* task t has sent a probing request
HasProbed(t) == task_pc[t] \in {"baseline", "probe", "done"}

\* every probing task has finished
ProbingFinished == \A t \in Probers : task_pc[t] = "done"

\* latest_scan.json holds a finding of this scan
LatestHoldsScan ==
    \E n \in 1..Len(latest_file.text) : latest_file.text[n].e.scan = "new"

\* C26: the phases of a scan are strictly ordered: no probing request is
\* issued before the crawl loop has ended; the export (scan_<ts>.json, then
\* latest_scan.json) starts only after every probing task has finished; so
\* latest_scan.json never holds findings of a scan that is still probing or
\* was interrupted.
C26_PhasesOrdered ==
    /\ \A t \in Probers : HasProbed(t) => run_pc \notin {"created", "crawl"}
    /\ (run_pc \in ExportPcs \cup {"exported", "done", "export_failed"}) => ProbingFinished
    /\ (json_file # "none" \/ csv_file # "none" \/ pdf_file # "none") => ProbingFinished
    /\ LatestHoldsScan => (ProbingFinished /\ run_pc \in {"latest_write", "exported", "done"})
    /\ run_pc \in {"created", "crawl", "probe", "interrupted"} =>
          (json_file = "none" /\ latest_file \in {File(FALSE, <<>>), File(TRUE, Dump(OldResults))})

\* C26 witness: a scan crawled a page, its tasks recorded a finding each, and
\* its export wrote them to latest_scan.json
C26_Witness ==
    /\ run_pc = "done"
    /\ pages = MaxPages
    /\ Len(scanner_results) = NumProbers
    /\ json_file = "written"
    /\ latest_file = File(TRUE, Dump(scanner_results))

\* C27: an error while writing the JSON or the CSV export fails only that
\* output: the other file and the latest_scan.json mirror are still written
\* (export_results goes on to its end), and the scan still ends with
\* running = false.
C27_ExportErrorsContained ==
    RunOver =>
        /\ json_file = "partial" => (csv_file = "written" /\ run_pc = "done")
        /\ csv_file = "partial" => (json_file = "written" /\ run_pc = "done")
        /\ scan_in_progress = FALSE

\* the text is empty
IsEmptyText(t) == t.cx + t.cy = 0

\* C28: comparator law: Differ(x, x) is false for every non-empty body x, and
\* Differ(a, b) is false whenever a or b is empty.
C28_ComparatorLaw ==
    call_ret.done =>
        /\ call_args.a = call_args.b => call_ret.val = FALSE
        /\ (IsEmptyText(call_args.a) \/ IsEmptyText(call_args.b)) => call_ret.val = FALSE

\* C28 witness: differ returned false on a long text and the empty text
C28_Witness ==
    /\ call_ret.done
    /\ call_args.a = Body(40 * MaxUnits, 0, {}, FALSE, FALSE, -1)
    /\ IsEmptyText(call_args.b)
    /\ call_ret.val = FALSE

\* ---- C30 ----
\* the URLs of the page fetches the crawl loop has issued, in order
FetchedUrls == [n \in 1..Len(fetchLog) |-> fetchLog[n].url]

NoUrlFetchedTwice ==
    \A m, n \in 1..Len(FetchedUrls) : FetchedUrls[m] = FetchedUrls[n] => m = n

\* a dequeue of a URL that is in the visited set only drops the queue entry
VisitedHeadSkipped ==
    (cpc = "loop" /\ to_visit # <<>> /\ Head(to_visit).url \in visited /\ to_visit' # to_visit)
        => /\ to_visit' = Tail(to_visit)
           /\ fetchLog' = fetchLog
           /\ visited' = visited
           /\ cpc' = "loop"

\* C30: the crawl loop fetches no URL twice in a scan: every fetched URL is in
\* the visited set from the moment its fetch is issued, whatever the fetch
\* returns, and a dequeued URL that is in the visited set is dropped without
\* a fetch, however many copies of it the queue holds.
C30_EachUrlFetchedOnce ==
    /\ [](NoUrlFetchedTwice /\ \A n \in 1..Len(FetchedUrls) : FetchedUrls[n] \in visited)
    /\ [][VisitedHeadSkipped]_vars

\* the pages of /a and /b both held the form whose action is /s?x=1#frag, so the
\* action was enqueued twice before its first fetch; the crawl ended with one
\* fetch of it, the second copy having been dequeued and skipped
C30_Witness ==
    /\ cpc = "done"
    /\ max_depth = 2
    /\ ~respect_robots
    /\ FetchedUrls = <<TheSeed, Url("h", <<"a">>, QX1, ""), Url("h", <<"b">>, NoQuery, ""),
                       Url("h", <<"s">>, QX1, "frag")>>
    /\ Len(form_targets) = 3

\* ---- C29 ----
\* the position of the first element of the sequence g that is x
FirstGenerated(g, x) ==
    CHOOSE n \in 1..Len(g) : g[n] = x /\ \A k \in 1..(n - 1) : g[k] # x

\* muts holds every non-empty element of g once, in the order in which the
\* elements first occur in g
KeptInFirstOrder(g, muts) ==
    /\ \A i, j \in 1..Len(muts) : muts[i] = muts[j] => i = j
    /\ {muts[i] : i \in 1..Len(muts)} = {g[n] : n \in 1..Len(g)} \ {<<>>}
    /\ \A i \in 1..(Len(muts) - 1) : FirstGenerated(g, muts[i]) < FirstGenerated(g, muts[i + 1])

\* C29: for a non-empty payload p, mutate_payload(p) starts with p, holds no
\* element twice and keeps the variants in the order of their first
\* generation; the element [0] that the boolean phase sends is therefore the
\* true or false payload itself.
C29_OriginalFirstNoDuplicates ==
    (call_ret.done /\ call_args.payload # <<>>)
        => /\ call_ret.val # <<>>
           /\ call_ret.val[1] = call_args.payload
           /\ LET g == Generated(call_args.payload)
              IN KeptInFirstOrder(g, call_ret.val)
           /\ call_args.payload \in BooleanPayloads => Head(call_ret.val) \in BooleanPayloads

\* the call on the string-context true payload has returned: several variants,
\* fewer than the calls of add, the payload first
C29_Witness ==
    /\ call_ret.done
    /\ call_args.payload = PAYLOADS.boolean_str_true[1]
    /\ Len(call_ret.val) > 1
    /\ Len(call_ret.val) < Len(Generated(call_args.payload))
    /\ call_ret.val[1] = PAYLOADS.boolean_str_true[1]

\* ---- C31 ----
DepthsNeverDecrease(q) == \A m, n \in 1..Len(q) : m <= n => q[m].depth <= q[n].depth

\* the queue loses its head or gains entries at its end, never anything else
FifoStep ==
    \/ to_visit' = to_visit
    \/ to_visit # <<>> /\ to_visit' = Tail(to_visit)
    \/ /\ Len(to_visit') > Len(to_visit)
       /\ SubSeq(to_visit', 1, Len(to_visit)) = to_visit
       /\ \A n \in (Len(to_visit) + 1)..Len(to_visit') : to_visit'[n].depth = cur.depth + 1

\* a fetch is issued only by the loop, for the head of the queue, and the loop
\* goes on only when that fetch has returned
OneFetchAtATime ==
    /\ fetchLog' # fetchLog =>
          /\ cpc = "loop" /\ cpc' = "fetching"
          /\ to_visit # <<>>
          /\ fetchLog' = Append(fetchLog, Head(to_visit))
    /\ cpc = "fetching" => (fetchLog' = fetchLog /\ visited' = visited /\ cur' = cur)

\* C31: the crawl is breadth-first in one task: the queue is first-in
\* first-out, the depths of the URLs fetched one after the other never
\* decrease, and a crawler fetch is issued only when the one before it has
\* returned.
C31_BreadthFirstSingleTask ==
    /\ [](DepthsNeverDecrease(fetchLog) /\ DepthsNeverDecrease(to_visit))
    /\ [][FifoStep /\ OneFetchAtATime]_vars

\* the crawl has ended after fetches at the depths 0, 1, 1 and 2
C31_Witness ==
    /\ cpc = "done"
    /\ Len(fetchLog) = 4
    /\ [n \in 1..4 |-> fetchLog[n].depth] = <<0, 1, 1, 2>>

\* ---- C32 ----
CrawlEnded == cpc = "done" /\ to_visit = <<>>

ServedBy(u) ==
    IF \E n \in 1..Len(served) : fetchLog[n].url = u
      THEN served[CHOOSE n \in 1..Len(served) : fetchLog[n].url = u]
      ELSE EmptyText

\* the URLs the links and the form actions of the page of u lead to
LinkedFrom(u) ==
    LET page == ServedBy(u)
    IN {StripFragment(urljoin(u, page.links[n])) :
            n \in {k \in 1..Len(page.links) : page.links[k].kind = "http"}}
         \cup {urljoin(u, page.forms[n].action) : n \in 1..Len(page.forms)}

\* the URLs at the end of a chain of at most d links or form actions from the
\* seed through pages that were returned
RECURSIVE Reachable(_)
Reachable(d) ==
    IF d = 0 THEN {start_url}
    ELSE Reachable(d - 1) \cup UNION {LinkedFrom(u) : u \in Reachable(d - 1)}

RobotsPermit(u) == ~(respect_robots /\ robots.loaded /\ Denied(u))

Probing(i) == tt[i].pc \notin {"baseline", "done"}

\* C34: no step of a probing task changes a target: type, url and params of
\* every target stay what they were when the tasks were made, however the
\* tasks interleave, while each task assigns into its own params.
C34_TargetsUnchanged == [][targets' = targets]_vars

\* both tasks of the two-target run have gone through their probes, each has
\* left a finding, and the targets are as built
C34_Witness ==
    /\ targets = <<tGet1, tGet2>>
    /\ \A i \in 1..2 : tt[i].pc = "done" /\ tt[i].params = targets[i].params
    /\ \E n \in 1..Len(results) : cause[n].task = 1
    /\ \E n \in 1..Len(results) : cause[n].task = 2

\* ---- C35 ----
\* the value parameter j has in target i
TargetValue(i, j) == targets[i].params[j][2]

\* the params of the request task i has in flight, or of its next one, differ
\* from the target's in the value of the probed parameter at most
OneParamProbed(i) ==
    /\ Len(tt[i].params) = Len(targets[i].params)
    /\ \A j \in 1..Len(tt[i].params) :
          /\ tt[i].params[j][1] = targets[i].params[j][1]
          /\ (Probing(i) /\ j = tt[i].pi) \/ tt[i].params[j][2] = TargetValue(i, j)

\* the value a phase has saved for the probed parameter is the target's: the
\* phase before it has put it back
OrigIsTargetValue(i) ==
    Probing(i) => (tt[i].pi \in 1..Len(targets[i].params)
                     /\ tt[i].orig = TargetValue(i, tt[i].pi))

\* C35: every request of a probing task carries the target's own value in
\* every parameter but the one it probes; each phase starts on a parameter
\* from the target's value, that is, the phase before has restored it; and a
\* task that is done holds the target's params.
C35_OneParamDiffers ==
    \A i \in DOMAIN tt : OneParamProbed(i) /\ OrigIsTargetValue(i)

\* the two-parameter form target in its UNION phase on the second parameter:
\* user, which three phases have probed, holds bob again
C35_Witness ==
    /\ targets = <<tForm>>
    /\ tt[1].pc = "union_n"
    /\ tt[1].pi = 2
    /\ tt[1].params[1] = <<"user", "bob">>
    /\ tt[1].params[2][2] # "test"

\* ---- C36 ----
\* a scan whose start request was answered 'started' and whose _run has not
\* left its finally clause
CommittedScans ==
    {s \in Requests : rpc[s] = "done" /\ resp[s] = "started" /\ phase[s] \in ActivePhases}

\* C36: while a scan whose start request was answered 'started' is scheduled
\* or executing, the flag that api_status reports is set.
C36_RunningWhileCommitted == CommittedScans # {} => scan_in_progress

\* ---- C37 ----
\* the slots of self.semaphore that are taken
HeldSlots == concurrency - sem

Sleeping == {t \in FTasks : fpc[t] = "backoff"}

\* C37: the slots taken are those of the requests in flight: a fetch in its
\* backoff sleep holds none, and a task that waits for a slot waits for
\* requests in flight only.
C37_BackoffHoldsNoSlot ==
    /\ HeldSlots = Cardinality(InFlight)
    /\ Sleeping \cap InFlight = {}
    /\ \A t \in FTasks : (fpc[t] = "acquire" /\ sem = 0) => Cardinality(InFlight) = concurrency

\* one slot in all: a probing task sleeps after a failed attempt while the
\* request of another is in flight
C37_Witness ==
    /\ concurrency = 1
    /\ Sleeping # {}
    /\ InFlight # {}
    /\ sem = 0

\* ---- C38 ----
\* C38: every target discover_targets returns has the method GET or POST.
C38_MethodGetOrPost ==
    cpc = "discovered" => \A n \in 1..Len(targets) : targets[n].type \in {"GET", "POST"}

====
